---------------------------- MODULE Spec2Model ----------------------------
(***************************************************************************)
(* Model of modules/slm-assist/rag_app.py: the startup sequence (backend   *)
(* discovery, corpus load, rebuild-or-reuse of the persisted FAISS index)  *)
(* the thread-safe retriever that serves queries afterwards, the metrics    *)
(* collector and the query handler rag_chat; and of the corpus tools of    *)
(* scripts/rag_dataset_prep.py and scripts/generate_flake_corpus.py: the   *)
(* sentence chunker and the writer of the JSONL corpus the service loads.  *)
(***************************************************************************)
EXTENDS Integers, Sequences, FiniteSets, TLC

\* ------------------------------------------------------------------ bounds

\* Largest max_retries argument of detect_ollama_model explored (the code's
\* default is 20); every value 1..MaxRetries is explored.
MaxRetries == 4

\* Threads calling the retriever at the same time.
NumThreads == 2

\* Longest corpus file explored, in lines.
MaxLines == 2

\* Passage length limit of line 41, scaled down from 6000 characters.
MAX_CHARS == 2

\* Query length limit of line 49, scaled down from 2000 characters.
MAX_QUERY_LENGTH == 2

\* Largest reading of the wall clock, in hundredths of a second.
MaxClock == 1

\* record_query calls after which no further query or call is started.
MaxQueries == 3

\* Longest text and largest max_len given to smart_truncate on its own.
MaxTextLen == 6

MaxTruncLen == 5

\* Most sentences of a text given to semantic_chunk_text, the largest
\* max_tokens and the largest overlap_sentences explored.
MaxSentences == 4

MaxTokens == 3

MaxOverlap == 2

\* Most entries of a corpus written by the tools, and the longest text of an
\* entry, in characters.
MaxEntries == 2

MaxEntryLen == 3

\* ------------------------------------------------------------- the state

VARIABLES
    \* the main thread of the process
    pc,             \* where the module-level code of rag_app.py stands
    exitStatus,     \* status the process ended with (0 while it runs)
    \* environment of detect_ollama_model
    env_model,      \* os.getenv("OLLAMA_MODEL"): NoEnv when unset
    max_retries,    \* the max_retries argument
    responses,      \* what the backend answers to poll 1, 2, ... max_retries
    \* locals and result of detect_ollama_model
    attempt,        \* loop variable of the retry loop
    polls,          \* requests.get calls made so far
    sleeps,         \* time.sleep(retry_delay) calls made so far
    OLLAMA_MODEL,   \* the value detect_ollama_model returned (NoModel before)
    \* the files under DATA_DIR
    corpus_file,    \* CORPUS_PATH: [exists, lines]
    index_file,     \* INDEX_PATH: [exists, idx]
    hash_file,      \* CORPUS_HASH_PATH: [exists, text]
    \* module-level globals of the running process
    corpus,         \* the loaded passages
    index,          \* the FAISS index in memory
    current_hash,   \* current_hash of line 200
    \* history kept for the properties (no code reads these)
    loaded,         \* the lines of the corpus file as LoadCorpus read them
    embedded,       \* this process has embedded the corpus passages (line 191)
    edited,         \* the corpus file was edited while this process ran
    lastBuild,      \* the last rebuild that persisted index and fingerprint
    builds,         \* corpus files some startup completed a rebuild for
    \* the retriever (LocalRetriever) and the threads calling forward
    lock,           \* self.lock: the thread holding it, 0 when free
    enc_buf,        \* working state of the embedder: the text being encoded
    idx_buf,        \* working state of the index: the vector searched for
    tpc,            \* per thread: where its call of forward stands
    call,           \* per thread: the arguments [single, queries, k]
    qi,             \* per thread: position of the for loop in queries
    q_emb,          \* per thread: q_emb of line 229
    found,          \* per thread: I[0] of line 230
    all_passages,   \* per thread: all_passages
    result,         \* per thread: what the last call returned
    \* the metrics collector (MetricsCollector) and the threads calling it
    query_count,    \* self.query_count
    error_count,    \* self.error_count
    total_latency,  \* self.total_latency, in hundredths of a second
    mlock,          \* self.lock of the collector: the holder, 0 when free
    mpc,            \* per thread: where its record_query or get_stats stands
    margs,          \* per thread: the arguments [latency, success]
    mreg,           \* per thread: the value read by the += in progress
    stats,          \* per thread: what its last get_stats returned
    \* the query handler (rag_chat), one call per thread
    cpc,            \* per thread: where its call of rag_chat stands
    message,        \* per thread: the message argument
    history,        \* per thread: the history argument
    start_time,     \* per thread: start_time of line 306
    verdict,        \* per thread: valid, error_msg of line 309
    context,        \* per thread: result.context
    answer,         \* per thread: result.answer
    reply,          \* per thread: what the last call of rag_chat returned
    \* history kept for the properties (no code reads these)
    calls,          \* record_query calls that have returned: [n, e]
    recorded,       \* per thread: success flags recorded for its query
    raised,         \* per thread: text of the exception its query raised
    \* one call of smart_truncate on its own
    st_text,        \* the text argument
    st_max_len,     \* the max_len argument
    st_result,      \* what the call returned
    \* one call of semantic_chunk_text on its own
    ct_sentences,   \* sent_tokenize(text): the word count of each sentence
    ct_max_tokens,  \* the max_tokens argument
    ct_overlap,     \* the overlap_sentences argument
    ct_chunks,      \* the chunks returned, each the sentences it joins
    \* a corpus written by the tools and loaded by the service
    rt_entries,     \* the entries given to the writer: the text of each
    rt_encoding,    \* the encoding of the locale the service runs under
    rt_file,        \* the bytes of the corpus file the writer left
    rt_corpus       \* what the load of line 179 made of it: [ok, passages]

discVars == <<env_model, max_retries, responses, attempt, polls, sleeps,
              OLLAMA_MODEL>>

diskVars == <<corpus_file, index_file, hash_file>>

memVars == <<corpus, index, current_hash>>

histVars == <<loaded, embedded, edited, lastBuild, builds>>

srchVars == <<lock, enc_buf, idx_buf, tpc, call, qi, q_emb, found,
              all_passages, result>>

metVars == <<query_count, error_count, total_latency, mlock, mpc, margs,
             mreg, stats, calls>>

chatVars == <<cpc, message, history, start_time, verdict, context, answer,
              reply, recorded, raised>>

truncVars == <<st_text, st_max_len, st_result>>

\* The functions that are called on their own.
chunkVars == <<ct_sentences, ct_max_tokens, ct_overlap, ct_chunks>>

tripVars == <<rt_entries, rt_encoding, rt_file, rt_corpus>>

fnVars == <<truncVars, chunkVars, tripVars>>

vars == <<pc, exitStatus, discVars, diskVars, memVars, histVars, srchVars,
          metVars, chatVars, fnVars>>

\* ------------------------------------------------- backend discovery: data

NoEnv == "<unset>"
NoModel == "<none>"
NoName == "<no name>"

\* Values of the OLLAMA_MODEL environment variable: unset, empty, a name.
EnvValues == {NoEnv, "", "custom"}

\* One /api/tags response.
\*   http   "fail": requests.get or raise_for_status raised RequestException
\*   body   what response.json() gives: "invalid" (ValueError), "object"
\*          (a dict), "other" (valid JSON that is no dict: a list, null)
\*   models the value under "models": tag "absent" (no such key), "list"
\*          (items: the entries' names, NoName for an entry without "name"),
\*          "scalar" (a non-zero number: truthy, not subscriptable)
Resp(http, body, tag, items) ==
    [http |-> http, body |-> body, models |-> [tag |-> tag, items |-> items]]

RespNetFail == Resp("fail", "invalid", "absent", <<>>)
RespBadJson == Resp("ok", "invalid", "absent", <<>>)
RespNotObject == Resp("ok", "other", "absent", <<>>)
RespNoField == Resp("ok", "object", "absent", <<>>)
RespZeroModels == Resp("ok", "object", "list", <<>>)
RespScalarModels == Resp("ok", "object", "scalar", <<>>)
RespNameless == Resp("ok", "object", "list", <<NoName, "m1">>)
RespOneModel == Resp("ok", "object", "list", <<"m1">>)
RespTwoModels == Resp("ok", "object", "list", <<"m2", "m1">>)

Responses ==
    {RespNetFail, RespBadJson, RespNotObject, RespNoField, RespZeroModels,
     RespScalarModels, RespNameless, RespOneModel, RespTwoModels}

\* data.get("models", []) of line 105, for a dict.
ModelsOf(r) ==
    IF r.models.tag = "absent" THEN [tag |-> "list", items |-> <<>>]
    ELSE r.models

\* Python truthiness of the value `models` (line 107).
Truthy(m) == IF m.tag = "list" THEN Len(m.items) > 0 ELSE TRUE

\* models[0]["name"] of line 111: the name, or NoName when the expression
\* raises KeyError, IndexError or TypeError.
FirstModelLast(m) ==
    IF m.tag = "list" /\ m.items[Len(m.items)] # NoName
    THEN m.items[Len(m.items)] ELSE NoName

FirstModel(m) ==
    IF m.tag = "list" /\ m.items[1] # NoName THEN m.items[1] ELSE NoName

\* How one iteration of the retry loop (lines 95-119) ends for response r:
\*   "return"   line 113
\*   "continue" lines 103 and 116: next iteration, the sleep is skipped
\*   "fall"     lines 108 and 119: falls through to the sleep of line 121
\*   "raise"    data.get on a non-dict raises AttributeError, which no
\*              except clause of the function catches
PollOutcomeNoRaise(r) ==
    IF r.http = "fail" THEN "fall"
    ELSE IF r.body = "invalid" THEN "continue"
    ELSE IF r.body # "object" THEN "continue"
    ELSE IF ~Truthy(ModelsOf(r)) THEN "fall"
    ELSE IF FirstModel(ModelsOf(r)) # NoName THEN "return"
    ELSE "continue"

PollOutcome(r) ==
    IF r.http = "fail" THEN "fall"
    ELSE IF r.body = "invalid" THEN "continue"
    ELSE IF r.body # "object" THEN "raise"
    ELSE IF ~Truthy(ModelsOf(r)) THEN "fall"
    ELSE IF FirstModel(ModelsOf(r)) # NoName THEN "return"
    ELSE "continue"

\* ---------------------------------------------- backend discovery: actions

\* Lines 86-92: the override, when set and non-empty, is returned at once.
DetectStartIgnoresOverride ==
    /\ pc = "detect"
    /\ attempt' = 1
    /\ pc' = "poll"
    /\ UNCHANGED <<exitStatus, env_model, max_retries, responses, polls, sleeps,
                   OLLAMA_MODEL>>
    /\ UNCHANGED <<diskVars, memVars, histVars>>
    /\ UNCHANGED <<srchVars, metVars, chatVars>>
    /\ UNCHANGED fnVars

DetectStart ==
    /\ pc = "detect"
    /\ IF env_model # NoEnv /\ env_model # ""
       THEN /\ OLLAMA_MODEL' = env_model
            /\ pc' = "corpus_exists"
            /\ UNCHANGED attempt
       ELSE /\ attempt' = 1
            /\ pc' = "poll"
            /\ UNCHANGED OLLAMA_MODEL
    /\ UNCHANGED <<exitStatus, env_model, max_retries, responses, polls, sleeps>>
    /\ UNCHANGED <<diskVars, memVars, histVars>>
    /\ UNCHANGED <<srchVars, metVars, chatVars>>
    /\ UNCHANGED fnVars

\* Lines 94-121: one iteration of the retry loop, up to the sleep.
Poll ==
    /\ pc = "poll"
    /\ polls' = polls + 1
    /\ LET r == responses[attempt]
           out == PollOutcome(r)
       IN  CASE out = "return" ->
                  /\ OLLAMA_MODEL' = FirstModel(ModelsOf(r))
                  /\ pc' = "corpus_exists"
                  /\ UNCHANGED <<attempt, exitStatus>>
             [] out = "raise" ->
                  /\ pc' = "crashed"
                  /\ exitStatus' = 1
                  /\ UNCHANGED <<attempt, OLLAMA_MODEL>>
             [] out = "continue" ->
                  /\ IF attempt < max_retries
                     THEN attempt' = attempt + 1 /\ pc' = "poll"
                     ELSE attempt' = attempt /\ pc' = "exhausted"
                  /\ UNCHANGED <<OLLAMA_MODEL, exitStatus>>
             [] out = "fall" ->
                  /\ IF attempt < max_retries
                     THEN pc' = "sleep"
                     ELSE pc' = "exhausted"
                  /\ UNCHANGED <<attempt, OLLAMA_MODEL, exitStatus>>
    /\ UNCHANGED <<env_model, max_retries, responses, sleeps>>
    /\ UNCHANGED <<diskVars, memVars, histVars>>
    /\ UNCHANGED <<srchVars, metVars, chatVars>>
    /\ UNCHANGED fnVars

\* Line 122: time.sleep(retry_delay), then the next iteration.
Sleep ==
    /\ pc = "sleep"
    /\ sleeps' = sleeps + 1
    /\ attempt' = attempt + 1
    /\ pc' = "poll"
    /\ UNCHANGED <<exitStatus, env_model, max_retries, responses, polls,
                   OLLAMA_MODEL>>
    /\ UNCHANGED <<diskVars, memVars, histVars>>
    /\ UNCHANGED <<srchVars, metVars, chatVars>>
    /\ UNCHANGED fnVars

\* Lines 124-130: the loop ended without a return: sys.exit(1).
ExhaustedReturnsNone ==
    /\ pc = "exhausted"
    /\ pc' = "corpus_exists"
    /\ UNCHANGED <<exitStatus, discVars, diskVars, memVars, histVars>>
    /\ UNCHANGED <<srchVars, metVars, chatVars>>
    /\ UNCHANGED fnVars

Exhausted ==
    /\ pc = "exhausted"
    /\ pc' = "exited"
    /\ exitStatus' = 1
    /\ UNCHANGED <<discVars, diskVars, memVars, histVars>>
    /\ UNCHANGED <<srchVars, metVars, chatVars>>
    /\ UNCHANGED fnVars

\* ------------------------------------------------------- corpus and index

\* One line of the corpus file: ok when ujson.loads(line)['text'] succeeds.
LineA == [ok |-> TRUE, text |-> <<1>>]

\* A text one character longer than MAX_CHARS.
LineB == [ok |-> TRUE, text |-> [i \in 1..(MAX_CHARS + 1) |-> 2]]

BadLine == [ok |-> FALSE, text |-> <<>>]

Lines == {LineA, LineB, BadLine}

CorpusContents == UNION {[1..n -> Lines] : n \in 1..MaxLines}

GoodContents == {c \in CorpusContents : \A i \in DOMAIN c : c[i].ok}

\* The contents the corpus file is given over a sequence of startups: a
\* one-line corpus, the same with a line added, another one-line corpus, and
\* a file whose second line does not parse.
CorpusVersions ==
    {<<LineA>>, <<LineA, LineB>>, <<LineB>>, <<LineA, BadLine>>}

NoFile == [exists |-> FALSE, lines |-> <<>>]

File(c) == [exists |-> TRUE, lines |-> c]

\* text[:MAX_CHARS] of line 179.
NoTruncate(text) == text

Truncate(text) ==
    IF Len(text) <= MAX_CHARS THEN text ELSE SubSeq(text, 1, MAX_CHARS)

\* The list comprehension of line 179, for a file every line of which parses.
ParseCorpus(lines) == [i \in DOMAIN lines |-> Truncate(lines[i].text)]

\* embedder.encode of one text: the embedding capability, deterministic in
\* the text.  A vector is modelled by the set of the text's characters, the
\* inner product of two vectors by the number of characters they share.
Embed(text) == {text[i] : i \in DOMAIN text}

\* Lines 191-194: the index over the passages, vector i for passage i.
\* `of` is history: the file content the passages were loaded from.
BuildIndex(passages, of) ==
    [vecs |-> [i \in DOMAIN passages |-> Embed(passages[i])], of |-> of]

NoIndex == [vecs |-> <<>>, of |-> <<>>]

NoIndexFile == [exists |-> FALSE, idx |-> NoIndex]

\* hashlib.sha256 over the file's blocks (lines 139-143).  The digest is
\* modelled as collision-free: it keeps every block it was updated with.
RECURSIVE Sha256Update(_, _)
Sha256Update(h, blocks) ==
    IF blocks = <<>> THEN h
    ELSE Sha256Update(Append(h, Head(blocks)), Tail(blocks))

compute_corpus_hash_first_block(f) ==
    <<"sha256", Sha256Update(<<>>, <<Head(f.lines)>>)>>

compute_corpus_hash(f) == <<"sha256", Sha256Update(<<>>, f.lines)>>

\* The text of the sidecar file: a hex digest, possibly with white space
\* around it.  The code writes the bare digest (line 202).
Text(hex) == [lead |-> FALSE, hex |-> hex, trail |-> FALSE]

EmptyText == Text(<<>>)

\* str.strip() of line 157.
NoStrip(t) == t

Strip(t) == [t EXCEPT !.lead = FALSE, !.trail = FALSE]

NoHashFile == [exists |-> FALSE, text |-> EmptyText]

\* Lines 145-164, given that the corpus file exists.
should_rebuild_index_always == TRUE

should_rebuild_index_no_index_check ==
    IF ~hash_file.exists THEN TRUE
    ELSE Text(compute_corpus_hash(corpus_file)) # Strip(hash_file.text)

should_rebuild_index ==
    IF ~index_file.exists THEN TRUE
    ELSE IF ~hash_file.exists THEN TRUE
    ELSE IF Text(compute_corpus_hash(corpus_file)) # Strip(hash_file.text)
         THEN TRUE
    ELSE FALSE

\* lastBuild: done once a rebuild has persisted index and fingerprint; lines
\* is the corpus file it left behind; clean when that file was not edited
\* during the build; changed when it replaced a clean build of another file;
\* latest until a later startup decides to rebuild.
NoBuild ==
    [done |-> FALSE, clean |-> FALSE, lines |-> <<>>, changed |-> FALSE,
     latest |-> FALSE]

\* ------------------------------------------------ startup after discovery

\* Lines 171-175.
CorpusExists ==
    /\ pc = "corpus_exists"
    /\ IF corpus_file.exists
       THEN pc' = "load_corpus" /\ UNCHANGED exitStatus
       ELSE pc' = "exited" /\ exitStatus' = 1
    /\ UNCHANGED <<discVars, diskVars, memVars, histVars>>
    /\ UNCHANGED <<srchVars, metVars, chatVars>>
    /\ UNCHANGED fnVars

\* Lines 177-183: any exception while reading or parsing ends the process.
LoadCorpusSkipsBadLines ==
    /\ pc = "load_corpus"
    /\ corpus' = ParseCorpus(SelectSeq(corpus_file.lines, LAMBDA l : l.ok))
    /\ loaded' = corpus_file.lines
    /\ pc' = "decide"
    /\ UNCHANGED exitStatus
    /\ UNCHANGED <<discVars, diskVars, index, current_hash>>
    /\ UNCHANGED <<embedded, edited, lastBuild, builds>>
    /\ UNCHANGED <<srchVars, metVars, chatVars>>
    /\ UNCHANGED fnVars

LoadCorpus ==
    /\ pc = "load_corpus"
    /\ IF corpus_file.exists /\ corpus_file.lines \in GoodContents
       THEN /\ corpus' = ParseCorpus(corpus_file.lines)
            /\ loaded' = corpus_file.lines
            /\ pc' = "decide"
            /\ UNCHANGED exitStatus
       ELSE /\ pc' = "exited"
            /\ exitStatus' = 1
            /\ UNCHANGED <<corpus, loaded>>
    /\ UNCHANGED <<discVars, diskVars, index, current_hash>>
    /\ UNCHANGED <<embedded, edited, lastBuild, builds>>
    /\ UNCHANGED <<srchVars, metVars, chatVars>>
    /\ UNCHANGED fnVars

\* Line 189: the call of should_rebuild_index.
Decide ==
    /\ pc = "decide"
    /\ corpus_file.exists
    /\ pc' = IF should_rebuild_index THEN "encode" ELSE "read_index"
    /\ lastBuild' = IF should_rebuild_index
                    THEN [lastBuild EXCEPT !.latest = FALSE]
                    ELSE lastBuild
    /\ UNCHANGED <<exitStatus, discVars, diskVars, memVars>>
    /\ UNCHANGED <<loaded, embedded, edited, builds>>
    /\ UNCHANGED <<srchVars, metVars, chatVars>>
    /\ UNCHANGED fnVars

\* Lines 191-194: embed every passage and build the index in memory.
Encode ==
    /\ pc = "encode"
    /\ index' = BuildIndex(corpus, loaded)
    /\ embedded' = TRUE
    /\ pc' = "write_index"
    /\ UNCHANGED <<exitStatus, discVars, diskVars, corpus, current_hash>>
    /\ UNCHANGED <<loaded, edited, lastBuild, builds>>
    /\ UNCHANGED <<srchVars, metVars, chatVars>>
    /\ UNCHANGED fnVars

\* Line 197: faiss.write_index.
WriteIndex ==
    /\ pc = "write_index"
    /\ index_file' = [exists |-> TRUE, idx |-> index]
    /\ pc' = "hash_again"
    /\ UNCHANGED <<exitStatus, discVars, corpus_file, hash_file, memVars,
                   histVars>>
    /\ UNCHANGED <<srchVars, metVars, chatVars>>
    /\ UNCHANGED fnVars

\* Line 200: the corpus file is hashed again, as it is now.
HashAgain ==
    /\ pc = "hash_again"
    /\ corpus_file.exists
    /\ current_hash' = compute_corpus_hash(corpus_file)
    /\ pc' = "open_hash"
    /\ UNCHANGED <<exitStatus, discVars, diskVars, corpus, index, histVars>>
    /\ UNCHANGED <<srchVars, metVars, chatVars>>
    /\ UNCHANGED fnVars

\* Line 201: open(CORPUS_HASH_PATH, 'w') creates or truncates the sidecar.
OpenHash ==
    /\ pc = "open_hash"
    /\ hash_file' = [exists |-> TRUE, text |-> EmptyText]
    /\ pc' = "write_hash"
    /\ UNCHANGED <<exitStatus, discVars, corpus_file, index_file, memVars,
                   histVars>>
    /\ UNCHANGED <<srchVars, metVars, chatVars>>
    /\ UNCHANGED fnVars

\* Line 202 and the end of the with block: the digest reaches the sidecar.
WriteHash ==
    /\ pc = "write_hash"
    /\ hash_file' = [exists |-> TRUE, text |-> Text(current_hash)]
    /\ pc' = "ready"
    /\ lastBuild' = [done |-> TRUE, clean |-> ~edited,
                     lines |-> corpus_file.lines,
                     changed |-> lastBuild.done /\ lastBuild.clean
                                 /\ lastBuild.lines # corpus_file.lines,
                     latest |-> TRUE]
    /\ builds' = IF edited THEN builds ELSE builds \cup {corpus_file.lines}
    /\ UNCHANGED <<exitStatus, discVars, corpus_file, index_file, memVars>>
    /\ UNCHANGED <<loaded, embedded, edited>>
    /\ UNCHANGED <<srchVars, metVars, chatVars>>
    /\ UNCHANGED fnVars

\* Lines 205-207: faiss.read_index.
ReadIndex ==
    /\ pc = "read_index"
    /\ index_file.exists
    /\ index' = index_file.idx
    /\ pc' = "ready"
    /\ UNCHANGED <<exitStatus, discVars, diskVars, corpus, current_hash,
                   histVars>>
    /\ UNCHANGED <<srchVars, metVars, chatVars>>
    /\ UNCHANGED fnVars

\* Lines 209-268: the retriever, the language model and the RAG module.
Ready ==
    /\ pc = "ready"
    /\ pc' = "serving"
    /\ UNCHANGED <<exitStatus, discVars, diskVars, memVars, histVars>>
    /\ UNCHANGED <<srchVars, metVars, chatVars>>
    /\ UNCHANGED fnVars

\* ------------------------------------------------------- the environment

Running ==
    pc \notin {"exited", "crashed", "stopped"}

\* The process is stopped from outside (a kill, a power cut) at any step;
\* the threads calling the retriever end with it.
Stop ==
    /\ Running
    /\ pc' = "stopped"
    /\ exitStatus' = 137
    /\ lock' = 0
    /\ enc_buf' = <<>>
    /\ idx_buf' = {}
    /\ tpc' = [t \in DOMAIN tpc |-> "idle"]
    /\ call' = [t \in DOMAIN tpc |-> [single |-> TRUE, queries |-> <<>>, k |-> 0]]
    /\ qi' = [t \in DOMAIN tpc |-> 1]
    /\ q_emb' = [t \in DOMAIN tpc |-> {}]
    /\ found' = [t \in DOMAIN tpc |-> <<>>]
    /\ all_passages' = [t \in DOMAIN tpc |-> <<>>]
    /\ result' = [t \in DOMAIN tpc |-> [kind |-> "none", passages |-> <<>>]]
    /\ UNCHANGED <<discVars, diskVars, memVars, histVars>>
    /\ UNCHANGED <<metVars, chatVars>>
    /\ UNCHANGED fnVars

\* The supervisor starts the program again: a new process, the same disk.
Restart ==
    /\ ~Running
    /\ pc' = "detect"
    /\ exitStatus' = 0
    /\ attempt' = 0
    /\ polls' = 0
    /\ sleeps' = 0
    /\ OLLAMA_MODEL' = NoModel
    /\ corpus' = <<>>
    /\ index' = NoIndex
    /\ current_hash' = <<>>
    /\ loaded' = <<>>
    /\ embedded' = FALSE
    /\ edited' = FALSE
    /\ UNCHANGED <<env_model, max_retries, responses, diskVars, lastBuild,
                   builds>>
    /\ UNCHANGED <<srchVars, metVars, chatVars>>
    /\ UNCHANGED fnVars

\* Somebody replaces the corpus file by one of the given contents.
ReplaceCorpus(versions) ==
    /\ \E c \in versions :
          /\ c # corpus_file.lines
          /\ corpus_file' = File(c)
    /\ edited' = TRUE
    /\ UNCHANGED <<pc, exitStatus, discVars, index_file, hash_file, memVars,
                   loaded, embedded, lastBuild, builds>>
    /\ UNCHANGED <<srchVars, metVars, chatVars>>
    /\ UNCHANGED fnVars

\* The corpus file is replaced at any moment.
EditCorpus == ReplaceCorpus(CorpusVersions)

\* ----------------------------------------------------------- the retriever
\* Locals and working state that nothing reads any more are cleared, so
\* that states differing only in dead values coincide.

Threads == 1..NumThreads

\* Default k of the retriever (line 43).
RETRIEVER_K == 5

\* The queries the threads ask.
Query1 == <<1>>

Query2 == <<2>>

\* The arguments of forward: one query string or a list of queries, and k
\* (0 stands for None, which like 0 makes line 223 take self.k).
CallArgs ==
    {[single |-> TRUE, queries |-> qs, k |-> k] :
        qs \in {<<Query1>>, <<Query2>>}, k \in {0, 1}}
    \cup
    {[single |-> TRUE, queries |-> <<Query2>>, k |-> 2],
     [single |-> FALSE, queries |-> <<>>, k |-> 0],
     [single |-> FALSE, queries |-> <<Query2>>, k |-> 0],
     [single |-> FALSE, queries |-> <<Query1, Query2>>, k |-> 2]}

NoCall == [single |-> TRUE, queries |-> <<>>, k |-> 0]

NoResult == [kind |-> "none", passages |-> <<>>]

\* k = k or self.k (line 223).
EffectiveK(k) == IF k = 0 THEN RETRIEVER_K ELSE k

\* Inner product of two normalized embeddings.
Score(v, w) == Cardinality(v \cap w)

\* IndexFlatIP.search (line 230): the k positions of highest inner product,
\* best first, equal scores in position order, padded with -1 when the
\* index holds fewer than k vectors.  Positions count from 1.
Best(vecs, qv, cand) ==
    CHOOSE i \in cand :
        \A j \in cand :
            \/ Score(vecs[i], qv) > Score(vecs[j], qv)
            \/ Score(vecs[i], qv) = Score(vecs[j], qv) /\ i <= j

RECURSIVE TopK(_, _, _, _)
TopK(vecs, qv, cand, k) ==
    IF k = 0 THEN <<>>
    ELSE IF cand = {} THEN <<-1>> \o TopK(vecs, qv, cand, k - 1)
    ELSE LET b == Best(vecs, qv, cand)
         IN  <<b>> \o TopK(vecs, qv, cand \ {b}, k - 1)

IndexSearch(idx, qv, k) == TopK(idx.vecs, qv, DOMAIN idx.vecs, k)

\* [self.corpus[i] for i in I[0] if i != -1] (line 232).  Without the
\* filter, self.corpus[-1] is the last passage.
RECURSIVE PassagesUnfiltered(_, _)
PassagesUnfiltered(crp, I) ==
    IF I = <<>> THEN <<>>
    ELSE IF Head(I) = -1
    THEN <<crp[Len(crp)]>> \o PassagesUnfiltered(crp, Tail(I))
    ELSE <<crp[Head(I)]>> \o PassagesUnfiltered(crp, Tail(I))

RECURSIVE Passages(_, _)
Passages(crp, I) ==
    IF I = <<>> THEN <<>>
    ELSE IF Head(I) = -1 THEN Passages(crp, Tail(I))
    ELSE <<crp[Head(I)]>> \o Passages(crp, Tail(I))

\* Lines 222-225: a thread enters forward.
Call(t) ==
    /\ pc = "serving"
    /\ tpc[t] = "idle"
    /\ \E a \in CallArgs : call' = [call EXCEPT ![t] = a]
    /\ qi' = [qi EXCEPT ![t] = 1]
    /\ all_passages' = [all_passages EXCEPT ![t] = <<>>]
    /\ result' = [result EXCEPT ![t] = NoResult]
    /\ tpc' = [tpc EXCEPT ![t] = "loop"]
    /\ UNCHANGED <<lock, enc_buf, idx_buf, q_emb, found>>
    /\ UNCHANGED <<pc, exitStatus, discVars, diskVars, memVars, histVars,
                   metVars, chatVars>>
    /\ UNCHANGED fnVars

\* Line 227: the head of the for loop.
LoopHead(t) ==
    /\ tpc[t] = "loop"
    /\ tpc' = [tpc EXCEPT ![t] = IF qi[t] <= Len(call[t].queries)
                                 THEN "acquire" ELSE "return"]
    /\ UNCHANGED <<lock, enc_buf, idx_buf, call, qi, q_emb, found,
                   all_passages, result>>
    /\ UNCHANGED <<pc, exitStatus, discVars, diskVars, memVars, histVars,
                   metVars, chatVars>>
    /\ UNCHANGED fnVars

\* Line 228: with self.lock, entered once the lock is free.
AcquireNoLock(t) ==
    /\ tpc[t] = "acquire"
    /\ tpc' = [tpc EXCEPT ![t] = "encode"]
    /\ UNCHANGED <<lock, enc_buf, idx_buf, call, qi, q_emb, found,
                   all_passages, result>>
    /\ UNCHANGED <<pc, exitStatus, discVars, diskVars, memVars, histVars,
                   metVars, chatVars>>
    /\ UNCHANGED fnVars

Acquire(t) ==
    /\ tpc[t] = "acquire"
    /\ lock = 0
    /\ lock' = t
    /\ tpc' = [tpc EXCEPT ![t] = "encode"]
    /\ UNCHANGED <<enc_buf, idx_buf, call, qi, q_emb, found, all_passages,
                   result>>
    /\ UNCHANGED <<pc, exitStatus, discVars, diskVars, memVars, histVars,
                   metVars, chatVars>>
    /\ UNCHANGED fnVars

\* Line 229, first half: the embedder takes the text into its working
\* state.  The embedder is one object shared by all threads and is not
\* documented as safe for concurrent calls.
EncodeBegin(t) ==
    /\ tpc[t] = "encode"
    /\ enc_buf' = call[t].queries[qi[t]]
    /\ tpc' = [tpc EXCEPT ![t] = "encoding"]
    /\ UNCHANGED <<lock, idx_buf, call, qi, q_emb, found, all_passages,
                   result>>
    /\ UNCHANGED <<pc, exitStatus, discVars, diskVars, memVars, histVars,
                   metVars, chatVars>>
    /\ UNCHANGED fnVars

\* Line 229, second half: the embedding of what the working state holds.
EncodeEnd(t) ==
    /\ tpc[t] = "encoding"
    /\ q_emb' = [q_emb EXCEPT ![t] = Embed(enc_buf)]
    /\ enc_buf' = <<>>
    /\ tpc' = [tpc EXCEPT ![t] = "search"]
    /\ UNCHANGED <<lock, idx_buf, call, qi, found, all_passages, result>>
    /\ UNCHANGED <<pc, exitStatus, discVars, diskVars, memVars, histVars,
                   metVars, chatVars>>
    /\ UNCHANGED fnVars

\* Line 230, first half: the index takes the query vector.
SearchBegin(t) ==
    /\ tpc[t] = "search"
    /\ idx_buf' = q_emb[t]
    /\ tpc' = [tpc EXCEPT ![t] = "searching"]
    /\ UNCHANGED <<lock, enc_buf, call, qi, q_emb, found, all_passages,
                   result>>
    /\ UNCHANGED <<pc, exitStatus, discVars, diskVars, memVars, histVars,
                   metVars, chatVars>>
    /\ UNCHANGED fnVars

\* Line 230, second half: the top k for the vector the index holds.
SearchEnd(t) ==
    /\ tpc[t] = "searching"
    /\ found' = [found EXCEPT ![t] =
                    IndexSearch(index, idx_buf, EffectiveK(call[t].k))]
    /\ idx_buf' = {}
    /\ q_emb' = [q_emb EXCEPT ![t] = {}]
    /\ tpc' = [tpc EXCEPT ![t] = "release"]
    /\ UNCHANGED <<lock, enc_buf, call, qi, all_passages, result>>
    /\ UNCHANGED <<pc, exitStatus, discVars, diskVars, memVars, histVars,
                   metVars, chatVars>>
    /\ UNCHANGED fnVars

\* The end of the with block of line 228.
Release(t) ==
    /\ tpc[t] = "release"
    /\ lock' = IF lock = t THEN 0 ELSE lock
    /\ tpc' = [tpc EXCEPT ![t] = "filter"]
    /\ UNCHANGED <<enc_buf, idx_buf, call, qi, q_emb, found, all_passages,
                   result>>
    /\ UNCHANGED <<pc, exitStatus, discVars, diskVars, memVars, histVars,
                   metVars, chatVars>>
    /\ UNCHANGED fnVars

\* encode or search raises: the with block releases the lock and the
\* exception leaves forward.
RaiseKeepsLock(t) ==
    /\ tpc[t] \in {"encoding", "searching"}
    /\ result' = [result EXCEPT ![t] = [kind |-> "raised", passages |-> <<>>]]
    /\ enc_buf' = <<>>
    /\ idx_buf' = {}
    /\ q_emb' = [q_emb EXCEPT ![t] = {}]
    /\ all_passages' = [all_passages EXCEPT ![t] = <<>>]
    /\ tpc' = [tpc EXCEPT ![t] = "idle"]
    /\ UNCHANGED <<lock, call, qi, found>>
    /\ UNCHANGED <<pc, exitStatus, discVars, diskVars, memVars, histVars,
                   metVars, chatVars>>
    /\ UNCHANGED fnVars

Raise(t) ==
    /\ tpc[t] \in {"encoding", "searching"}
    /\ lock' = IF lock = t THEN 0 ELSE lock
    /\ result' = [result EXCEPT ![t] = [kind |-> "raised", passages |-> <<>>]]
    /\ enc_buf' = <<>>
    /\ idx_buf' = {}
    /\ q_emb' = [q_emb EXCEPT ![t] = {}]
    /\ all_passages' = [all_passages EXCEPT ![t] = <<>>]
    /\ tpc' = [tpc EXCEPT ![t] = "idle"]
    /\ UNCHANGED <<call, qi, found>>
    /\ UNCHANGED <<pc, exitStatus, discVars, diskVars, memVars, histVars,
                   metVars, chatVars>>
    /\ UNCHANGED fnVars

\* Lines 232-233: drop the -1 entries, look the passages up, append.  A
\* position the corpus does not have raises IndexError, which leaves
\* forward.
InCorpus(I) == \A n \in DOMAIN I : I[n] = -1 \/ I[n] \in DOMAIN corpus

Filter(t) ==
    /\ tpc[t] = "filter"
    /\ IF InCorpus(found[t])
       THEN /\ all_passages' = [all_passages EXCEPT ![t] =
                                   Append(@, Passages(corpus, found[t]))]
            /\ qi' = [qi EXCEPT ![t] = @ + 1]
            /\ tpc' = [tpc EXCEPT ![t] = "loop"]
            /\ UNCHANGED result
       ELSE /\ all_passages' = [all_passages EXCEPT ![t] = <<>>]
            /\ result' = [result EXCEPT ![t] =
                             [kind |-> "index_error", passages |-> <<>>]]
            /\ tpc' = [tpc EXCEPT ![t] = "idle"]
            /\ UNCHANGED qi
    /\ found' = [found EXCEPT ![t] = <<>>]
    /\ UNCHANGED <<lock, enc_buf, idx_buf, call, q_emb>>
    /\ UNCHANGED <<pc, exitStatus, discVars, diskVars, memVars, histVars,
                   metVars, chatVars>>
    /\ UNCHANGED fnVars

\* Lines 235-237: one Prediction when all_passages has one element, else
\* the list of Predictions.
ReturnDropsCorpus(t) ==
    /\ tpc[t] = "return"
    /\ result' = [result EXCEPT ![t] =
                     IF Len(all_passages[t]) = 1
                     THEN [kind |-> "one", passages |-> all_passages[t]]
                     ELSE [kind |-> "list", passages |-> all_passages[t]]]
    /\ all_passages' = [all_passages EXCEPT ![t] = <<>>]
    /\ tpc' = [tpc EXCEPT ![t] = "idle"]
    /\ UNCHANGED <<lock, enc_buf, idx_buf, call, qi, q_emb, found>>
    /\ corpus' = <<>>
    /\ UNCHANGED <<pc, exitStatus, discVars, diskVars, index, current_hash,
                   histVars, metVars, chatVars>>
    /\ UNCHANGED fnVars

Return(t) ==
    /\ tpc[t] = "return"
    /\ result' = [result EXCEPT ![t] =
                     IF Len(all_passages[t]) = 1
                     THEN [kind |-> "one", passages |-> all_passages[t]]
                     ELSE [kind |-> "list", passages |-> all_passages[t]]]
    /\ all_passages' = [all_passages EXCEPT ![t] = <<>>]
    /\ tpc' = [tpc EXCEPT ![t] = "idle"]
    /\ UNCHANGED <<lock, enc_buf, idx_buf, call, qi, q_emb, found>>
    /\ UNCHANGED <<pc, exitStatus, discVars, diskVars, memVars, histVars,
                   metVars, chatVars>>
    /\ UNCHANGED fnVars

\* ----------------------------------------------------- the metrics collector
\* Latencies and their sum are counted in hundredths of a second, the
\* success rate in hundredths of a percent, so that round(x, 2) is a
\* rounding to a whole number.  Binary floating point error is not modelled.

\* The latency_seconds argument of a direct call of record_query: values
\* whose averages over the explored numbers of calls are never half way
\* between two hundredths.
Latencies == {0, 4}

NoArgs == [latency |-> 0, success |-> TRUE]

NoStats ==
    [total_queries |-> 0, errors |-> 0, avg_latency_sec |-> 0,
     success_rate |-> 0]

\* round(n / d, 2) of lines 75-76, n and the result in hundredths: the
\* nearest whole number, a tie going to the even one.
Round(n, d) ==
    LET q == n \div d
        r == n % d
    IN  IF 2 * r < d THEN q
        ELSE IF 2 * r > d THEN q + 1
        ELSE IF q % 2 = 0 THEN q ELSE q + 1

\* The dictionary get_stats builds (lines 71-77).
SnapshotZeroRateWhenEmpty ==
    [total_queries |-> query_count,
     errors |-> error_count,
     avg_latency_sec |->
        IF query_count > 0 THEN Round(total_latency, query_count) ELSE 0,
     success_rate |->
        IF query_count > 0
        THEN Round((query_count - error_count) * 10000, query_count)
        ELSE 0]

Snapshot ==
    [total_queries |-> query_count,
     errors |-> error_count,
     avg_latency_sec |->
        IF query_count > 0 THEN Round(total_latency, query_count) ELSE 0,
     success_rate |->
        IF query_count > 0
        THEN Round((query_count - error_count) * 10000, query_count)
        ELSE 10000]

\* Threads that have entered record_query and not yet left it.
Recording ==
    {t \in Threads : mpc[t] \notin {"idle", "stats_acquire", "stats_compute"}}

\* Line 62: record_query enters with its two arguments.
EnterRecordQuery(t, latency, success) ==
    /\ mpc[t] = "idle"
    /\ margs' = [margs EXCEPT ![t] = [latency |-> latency, success |-> success]]
    /\ mpc' = [mpc EXCEPT ![t] = "record_acquire"]
    /\ stats' = [stats EXCEPT ![t] = NoStats]
    /\ UNCHANGED <<query_count, error_count, total_latency, mlock, mreg,
                   calls>>

\* A thread calls metrics.record_query directly.
RecordQuery(t) ==
    /\ pc = "serving"
    /\ cpc[t] = "idle"
    /\ calls.n + Cardinality(Recording) < MaxQueries
    /\ \E latency \in Latencies, success \in BOOLEAN :
          EnterRecordQuery(t, latency, success)
    /\ UNCHANGED <<pc, exitStatus, discVars, diskVars, memVars, histVars,
                   srchVars, chatVars>>
    /\ UNCHANGED fnVars

\* Line 63: with self.lock, entered once the lock is free.
RecordAcquireNoLock(t) ==
    /\ mpc[t] = "record_acquire"
    /\ mpc' = [mpc EXCEPT ![t] = "count_load"]
    /\ UNCHANGED <<query_count, error_count, total_latency, mlock, margs,
                   mreg, stats, calls>>
    /\ UNCHANGED <<pc, exitStatus, discVars, diskVars, memVars, histVars,
                   srchVars, chatVars>>
    /\ UNCHANGED fnVars

RecordAcquireWaitsForSearch(t) ==
    /\ mpc[t] = "record_acquire"
    /\ mlock = 0
    /\ lock = 0
    /\ mlock' = t
    /\ mpc' = [mpc EXCEPT ![t] = "count_load"]
    /\ UNCHANGED <<query_count, error_count, total_latency, margs, mreg,
                   stats, calls>>
    /\ UNCHANGED <<pc, exitStatus, discVars, diskVars, memVars, histVars,
                   srchVars, chatVars>>
    /\ UNCHANGED fnVars

RecordAcquire(t) ==
    /\ mpc[t] = "record_acquire"
    /\ mlock = 0
    /\ mlock' = t
    /\ mpc' = [mpc EXCEPT ![t] = "count_load"]
    /\ UNCHANGED <<query_count, error_count, total_latency, margs, mreg,
                   stats, calls>>
    /\ UNCHANGED <<pc, exitStatus, discVars, diskVars, memVars, histVars,
                   srchVars, chatVars>>
    /\ UNCHANGED fnVars

\* Line 64, self.query_count += 1: the read, then the write.
CountLoad(t) ==
    /\ mpc[t] = "count_load"
    /\ mreg' = [mreg EXCEPT ![t] = query_count]
    /\ mpc' = [mpc EXCEPT ![t] = "count_store"]
    /\ UNCHANGED <<query_count, error_count, total_latency, mlock, margs,
                   stats, calls>>
    /\ UNCHANGED <<pc, exitStatus, discVars, diskVars, memVars, histVars,
                   srchVars, chatVars>>
    /\ UNCHANGED fnVars

CountStore(t) ==
    /\ mpc[t] = "count_store"
    /\ query_count' = mreg[t] + 1
    /\ mreg' = [mreg EXCEPT ![t] = 0]
    /\ mpc' = [mpc EXCEPT ![t] = "latency_load"]
    /\ UNCHANGED <<error_count, total_latency, mlock, margs, stats, calls>>
    /\ UNCHANGED <<pc, exitStatus, discVars, diskVars, memVars, histVars,
                   srchVars, chatVars>>
    /\ UNCHANGED fnVars

\* Line 65, self.total_latency += latency_seconds.
LatencyLoad(t) ==
    /\ mpc[t] = "latency_load"
    /\ mreg' = [mreg EXCEPT ![t] = total_latency]
    /\ mpc' = [mpc EXCEPT ![t] = "latency_store"]
    /\ UNCHANGED <<query_count, error_count, total_latency, mlock, margs,
                   stats, calls>>
    /\ UNCHANGED <<pc, exitStatus, discVars, diskVars, memVars, histVars,
                   srchVars, chatVars>>
    /\ UNCHANGED fnVars

\* The write of line 65, then the test of line 66.
LatencyStore(t) ==
    /\ mpc[t] = "latency_store"
    /\ total_latency' = mreg[t] + margs[t].latency
    /\ mreg' = [mreg EXCEPT ![t] = 0]
    /\ mpc' = [mpc EXCEPT ![t] = IF margs[t].success THEN "record_release"
                                 ELSE "error_load"]
    /\ UNCHANGED <<query_count, error_count, mlock, margs, stats, calls>>
    /\ UNCHANGED <<pc, exitStatus, discVars, diskVars, memVars, histVars,
                   srchVars, chatVars>>
    /\ UNCHANGED fnVars

\* Line 67, self.error_count += 1.
ErrorLoad(t) ==
    /\ mpc[t] = "error_load"
    /\ mreg' = [mreg EXCEPT ![t] = error_count]
    /\ mpc' = [mpc EXCEPT ![t] = "error_store"]
    /\ UNCHANGED <<query_count, error_count, total_latency, mlock, margs,
                   stats, calls>>
    /\ UNCHANGED <<pc, exitStatus, discVars, diskVars, memVars, histVars,
                   srchVars, chatVars>>
    /\ UNCHANGED fnVars

ErrorStore(t) ==
    /\ mpc[t] = "error_store"
    /\ error_count' = mreg[t] + 1
    /\ mreg' = [mreg EXCEPT ![t] = 0]
    /\ mpc' = [mpc EXCEPT ![t] = "record_release"]
    /\ UNCHANGED <<query_count, total_latency, mlock, margs, stats, calls>>
    /\ UNCHANGED <<pc, exitStatus, discVars, diskVars, memVars, histVars,
                   srchVars, chatVars>>
    /\ UNCHANGED fnVars

\* The end of the with block of line 63: record_query returns.
RecordRelease(t) ==
    /\ mpc[t] = "record_release"
    /\ mlock' = IF mlock = t THEN 0 ELSE mlock
    /\ calls' = [n |-> calls.n + 1,
                 e |-> calls.e + IF margs[t].success THEN 0 ELSE 1]
    /\ recorded' = [recorded EXCEPT ![t] =
                       IF cpc[t] = "idle" THEN @
                       ELSE Append(@, margs[t].success)]
    /\ margs' = [margs EXCEPT ![t] = NoArgs]
    /\ mpc' = [mpc EXCEPT ![t] = "idle"]
    /\ UNCHANGED <<query_count, error_count, total_latency, mreg, stats>>
    /\ UNCHANGED <<cpc, message, history, start_time, verdict, context,
                   answer, reply, raised>>
    /\ UNCHANGED <<pc, exitStatus, discVars, diskVars, memVars, histVars,
                   srchVars>>
    /\ UNCHANGED fnVars

\* Lines 69-70: a thread calls get_stats (the Refresh Stats button).
GetStats(t) ==
    /\ pc = "serving"
    /\ cpc[t] = "idle"
    /\ mpc[t] = "idle"
    /\ mpc' = [mpc EXCEPT ![t] = "stats_acquire"]
    /\ stats' = [stats EXCEPT ![t] = NoStats]
    /\ UNCHANGED <<query_count, error_count, total_latency, mlock, margs,
                   mreg, calls>>
    /\ UNCHANGED <<pc, exitStatus, discVars, diskVars, memVars, histVars,
                   srchVars, chatVars>>
    /\ UNCHANGED fnVars

StatsAcquire(t) ==
    /\ mpc[t] = "stats_acquire"
    /\ mlock = 0
    /\ mlock' = t
    /\ mpc' = [mpc EXCEPT ![t] = "stats_compute"]
    /\ UNCHANGED <<query_count, error_count, total_latency, margs, mreg,
                   stats, calls>>
    /\ UNCHANGED <<pc, exitStatus, discVars, diskVars, memVars, histVars,
                   srchVars, chatVars>>
    /\ UNCHANGED fnVars

\* Lines 71-77: the dictionary is built and returned, the lock released.
StatsCompute(t) ==
    /\ mpc[t] = "stats_compute"
    /\ stats' = [stats EXCEPT ![t] = Snapshot]
    /\ mlock' = IF mlock = t THEN 0 ELSE mlock
    /\ mpc' = [mpc EXCEPT ![t] = "idle"]
    /\ UNCHANGED <<query_count, error_count, total_latency, margs, mreg,
                   calls>>
    /\ UNCHANGED <<pc, exitStatus, discVars, diskVars, memVars, histVars,
                   srchVars, chatVars>>
    /\ UNCHANGED fnVars

\* ------------------------------------------------- the query handler: data

\* Characters: 0 is the space, 1 and 2 are letters, 3 is the full stop.
Space == 0

Dot == 3

\* Lower query length limit (line 50).
MIN_QUERY_LENGTH == 1

\* Display length of a retrieved passage (line 320), scaled down from 180.
DISPLAY_LEN == 1

\* The message argument: None, or a string of spaces and letters of up to
\* one character more than the limit.
NoMessage == [missing |-> TRUE, text |-> <<>>]

Msg(text) == [missing |-> FALSE, text |-> text]

Messages ==
    {NoMessage} \cup
    {Msg(x) : x \in UNION {[1..n -> {Space, 1}] :
                               n \in 0..(MAX_QUERY_LENGTH + 1)}}

\* message.strip() is empty: the string holds nothing but white space.
Blank(text) == \A i \in DOMAIN text : text[i] = Space

\* The second component of what validate_input returns: the text and the
\* number the f-string of line 282 puts into it (0 when it puts none).
ErrorMsg(text, limit) == [text |-> text, limit |-> limit]

NoError == ErrorMsg("", 0)

\* validate_input (lines 273-284).
validate_input_rejects_at_limit(m) ==
    IF m.missing \/ Len(m.text) = 0 \/ Blank(m.text)
    THEN [valid |-> FALSE, error_msg |-> ErrorMsg("Please enter a question.", 0)]
    ELSE IF Len(m.text) >= MAX_QUERY_LENGTH
    THEN [valid |-> FALSE,
          error_msg |->
              ErrorMsg("Query too long (max {} characters). Please shorten your question.",
                       MAX_QUERY_LENGTH)]
    ELSE [valid |-> TRUE, error_msg |-> NoError]

validate_input(m) ==
    IF m.missing \/ Len(m.text) = 0 \/ Blank(m.text)
    THEN [valid |-> FALSE, error_msg |-> ErrorMsg("Please enter a question.", 0)]
    ELSE IF Len(m.text) < MIN_QUERY_LENGTH
    THEN [valid |-> FALSE,
          error_msg |-> ErrorMsg("Query too short. Please provide more detail.", 0)]
    ELSE IF Len(m.text) > MAX_QUERY_LENGTH
    THEN [valid |-> FALSE,
          error_msg |->
              ErrorMsg("Query too long (max {} characters). Please shorten your question.",
                       MAX_QUERY_LENGTH)]
    ELSE [valid |-> TRUE, error_msg |-> NoError]

NoVerdict == [valid |-> FALSE, error_msg |-> NoError]

\* The history argument: a list of turns, or something that is no list
\* (None, as a caller of the HTTP interface can send it).
NoHistory == [list |-> FALSE, turns |-> <<>>]

Histories == {[list |-> TRUE, turns |-> <<>>], NoHistory}

\* Readings of time.time(), the wall clock: two readings are in no fixed
\* order, because the system clock can be set back between them.
Clock == 0..MaxClock

\* start_time while no call of rag_chat has bound it.
NoTime == 0 - 1

\* text.rfind(' '), counted from 0; -1 when there is no space.
RFind(text) ==
    IF \E i \in DOMAIN text : text[i] = Space
    THEN (CHOOSE i \in DOMAIN text :
             /\ text[i] = Space
             /\ \A j \in DOMAIN text : text[j] = Space => j <= i) - 1
    ELSE 0 - 1

\* smart_truncate (lines 286-296).
smart_truncate_from_80(text, max_len) ==
    IF Len(text) <= max_len THEN text
    ELSE LET truncated == SubSeq(text, 1, max_len)
             last_space == RFind(truncated)
         IN  IF 10 * last_space >= 8 * max_len
             THEN SubSeq(truncated, 1, last_space) \o <<Dot, Dot, Dot>>
             ELSE truncated \o <<Dot, Dot, Dot>>

smart_truncate(text, max_len) ==
    IF Len(text) <= max_len THEN text
    ELSE LET truncated == SubSeq(text, 1, max_len)
             last_space == RFind(truncated)
         IN  IF 10 * last_space > 8 * max_len
             THEN SubSeq(truncated, 1, last_space) \o <<Dot, Dot, Dot>>
             ELSE truncated \o <<Dot, Dot, Dot>>

\* The tabulator: white space that is no space.
Tab == 4

\* The texts and limits smart_truncate is called with on its own.
TruncTexts == UNION {[1..n -> {Space, Tab, 1}] : n \in 0..MaxTextLen}

TruncLens == 1..MaxTruncLen

\* st_result before the call has returned.
NoText == <<0 - 1>>

\* One call of smart_truncate(st_text, st_max_len).
SmartTruncate ==
    /\ st_result = NoText
    /\ st_result' = smart_truncate(st_text, st_max_len)
    /\ UNCHANGED <<st_text, st_max_len>>
    /\ UNCHANGED <<pc, exitStatus, discVars, diskVars, memVars, histVars,
                   srchVars, metVars, chatVars, chunkVars, tripVars>>

\* ------------------------------------------------------ the corpus tools

\* semantic_chunk_text of rag_dataset_prep.py.  A text is given by the
\* sentences sent_tokenize finds in it: sentence i is known by its position
\* i and has toks[i] words (len(sentence.split())); a chunk, the sentences
\* joined by blanks, is given by the positions of the sentences it joins.
SentenceTexts ==
    UNION {[1..n -> 1..2] : n \in 0..MaxSentences}

\* current_chunk[-overlap_sentences:] of line 68: the last n elements, all
\* of them when n is at least the length, and, -0 being 0, the whole list
\* when n is 0.
LastSentences(current_chunk, n) ==
    IF n = 0 \/ n >= Len(current_chunk) THEN current_chunk
    ELSE SubSeq(current_chunk, Len(current_chunk) - n + 1, Len(current_chunk))

\* sum(len(s.split()) for s in current_chunk) of line 69.
RECURSIVE ChunkTokens(_, _)
ChunkTokens(current_chunk, toks) ==
    IF current_chunk = <<>> THEN 0
    ELSE toks[Head(current_chunk)] + ChunkTokens(Tail(current_chunk), toks)

\* The loop of lines 63-72 from sentence i on, and lines 74-77 after it.
RECURSIVE ChunkLoop(_, _, _, _, _, _, _)
ChunkLoop(toks, i, chunks, current, current_tokens, max_tokens, overlap) ==
    IF i > Len(toks)
    THEN IF current # <<>> THEN Append(chunks, current)
         ELSE chunks
    ELSE IF current_tokens + toks[i] > max_tokens /\ current # <<>>
    THEN LET kept == LastSentences(current, overlap)
         IN  ChunkLoop(toks, i + 1, Append(chunks, current),
                       Append(kept, i), ChunkTokens(kept, toks) + toks[i],
                       max_tokens, overlap)
    ELSE ChunkLoop(toks, i + 1, chunks, Append(current, i),
                   current_tokens + toks[i], max_tokens, overlap)

\* Lines 50-77; a blank text has no sentence and gives no chunk.
semantic_chunk_text(toks, max_tokens, overlap_sentences) ==
    IF toks = <<>> THEN <<>>
    ELSE ChunkLoop(toks, 1, <<>>, <<>>, 0, max_tokens, overlap_sentences)

\* ct_chunks before the call has returned.
NoChunks == <<<<0>>>>

\* One call of semantic_chunk_text, as process_source makes it.
SemanticChunkText ==
    /\ ct_chunks = NoChunks
    /\ ct_chunks' =
          semantic_chunk_text(ct_sentences, ct_max_tokens, ct_overlap)
    /\ UNCHANGED <<ct_sentences, ct_max_tokens, ct_overlap>>
    /\ UNCHANGED <<pc, exitStatus, discVars, diskVars, memVars, histVars,
                   srchVars, metVars, chatVars, truncVars, tripVars>>

\* The corpus file from writer to loader.  Characters are code points and
\* the file is a sequence of bytes.  The texts are made of the letter a
\* (97), the line feed (10), the double quote (34) and the sign U+00D7
\* (215), which generate_flake_corpus.py has in its texts.
TextChars == {97, 10, 34, 215}

EntryTexts == UNION {[1..n -> TextChars] : n \in 1..MaxEntryLen}

EntryLists == UNION {[1..n -> EntryTexts] : n \in 1..MaxEntries}

\* json.dumps(..., ensure_ascii=False) of one character of a string: quote
\* and backslash get a backslash, the line feed becomes \n, every other
\* character from U+0020 on is written as it is.
EscapeChar(c) ==
    IF c = 34 THEN <<92, 34>>
    ELSE IF c = 92 THEN <<92, 92>>
    ELSE IF c = 10 THEN <<92, 110>>
    ELSE <<c>>

RECURSIVE Escape(_)
Escape(text) ==
    IF text = <<>> THEN <<>>
    ELSE EscapeChar(Head(text)) \o Escape(Tail(text))

\* json.dumps(entry, ensure_ascii=False) + '\n' of line 361 (line 891 of
\* generate_flake_corpus.py), reduced to the member the loader reads: the
\* string literal of the text.  The other members are written by the same
\* call, on the same line.
DumpsLine(text) == <<34>> \o Escape(text) \o <<34, 10>>

\* encoding='utf-8' of the writer's open (line 359): one byte below U+0080,
\* two bytes below U+0800.
Utf8(c) ==
    IF c < 128 THEN <<c>> ELSE <<192 + (c \div 64), 128 + (c % 64)>>

RECURSIVE EncodeUtf8(_)
EncodeUtf8(chars) ==
    IF chars = <<>> THEN <<>>
    ELSE Utf8(Head(chars)) \o EncodeUtf8(Tail(chars))

RECURSIVE WriteLines(_)
WriteLines(entries) ==
    IF entries = <<>> THEN <<>>
    ELSE EncodeUtf8(DumpsLine(Head(entries))) \o WriteLines(Tail(entries))

\* The reader's open(CORPUS_PATH) of line 178 names no encoding and decodes
\* with the locale's: UTF-8, or an 8-bit encoding (ISO 8859-1) in which every
\* byte is one character.
Encodings == {"utf-8", "iso8859-1"}

DecodeError == [ok |-> FALSE, chars |-> <<>>]

RECURSIVE DecodeUtf8(_)
DecodeUtf8(bytes) ==
    IF bytes = <<>> THEN [ok |-> TRUE, chars |-> <<>>]
    ELSE IF Head(bytes) < 128
    THEN LET rest == DecodeUtf8(Tail(bytes))
         IN  IF rest.ok
             THEN [ok |-> TRUE, chars |-> <<Head(bytes)>> \o rest.chars]
             ELSE DecodeError
    ELSE IF /\ Head(bytes) \in 194..223
            /\ Len(bytes) >= 2
            /\ bytes[2] \in 128..191
    THEN LET rest == DecodeUtf8(Tail(Tail(bytes)))
         IN  IF rest.ok
             THEN [ok |-> TRUE,
                   chars |-> <<(Head(bytes) - 192) * 64 + (bytes[2] - 128)>>
                             \o rest.chars]
             ELSE DecodeError
    ELSE DecodeError

Decode(bytes, encoding) ==
    IF encoding = "utf-8" THEN DecodeUtf8(bytes)
    ELSE [ok |-> TRUE, chars |-> bytes]

\* `for line in f` of line 179: the text cut after every line feed.
RECURSIVE SplitLines(_, _)
SplitLines(chars, line) ==
    IF chars = <<>> THEN IF line = <<>> THEN <<>> ELSE <<line>>
    ELSE IF Head(chars) = 10
    THEN <<Append(line, 10)>> \o SplitLines(Tail(chars), <<>>)
    ELSE SplitLines(Tail(chars), Append(line, Head(chars)))

\* ujson.loads(line)['text'] of line 179, from position i of a line whose
\* string literal has been read up to there: an escape is undone, the
\* closing quote ends the text, and only white space may follow.
LoadsError == [ok |-> FALSE, text |-> <<>>]

RECURSIVE LoadsFrom(_, _, _)
LoadsFrom(line, i, text) ==
    IF i > Len(line) THEN LoadsError
    ELSE IF line[i] = 34
    THEN IF \A j \in (i + 1)..Len(line) : line[j] = 10
         THEN [ok |-> TRUE, text |-> text]
         ELSE LoadsError
    ELSE IF line[i] = 92
    THEN IF i + 1 > Len(line) THEN LoadsError
         ELSE IF line[i + 1] = 110 THEN LoadsFrom(line, i + 2, Append(text, 10))
         ELSE IF line[i + 1] \in {34, 92}
         THEN LoadsFrom(line, i + 2, Append(text, line[i + 1]))
         ELSE LoadsError
    ELSE IF line[i] < 32 THEN LoadsError
    ELSE LoadsFrom(line, i + 1, Append(text, line[i]))

Loads(line) ==
    IF line # <<>> /\ line[1] = 34 THEN LoadsFrom(line, 2, <<>>)
    ELSE LoadsError

\* Lines 177-183 on the bytes of a file: the passages, or the failure that
\* ends the process.
LoadFailed == [ok |-> FALSE, passages |-> <<>>]

LoadBytes(bytes, encoding) ==
    LET decoded == Decode(bytes, encoding)
        lines == SplitLines(decoded.chars, <<>>)
    IN  IF ~decoded.ok THEN LoadFailed
        ELSE IF \E i \in DOMAIN lines : ~Loads(lines[i]).ok THEN LoadFailed
        ELSE [ok |-> TRUE,
              passages |-> [i \in DOMAIN lines |->
                               Truncate(Loads(lines[i]).text)]]

\* rt_file before the writer has run, rt_corpus before the service loaded.
NoBytes == <<0 - 1>>

NotLoaded == [ok |-> FALSE, passages |-> <<<<0 - 1>>>>]

\* Lines 355-361 of rag_dataset_prep.py and 888-891 of
\* generate_flake_corpus.py: the tool writes its entries.
WriteCorpus ==
    /\ rt_file = NoBytes
    /\ rt_file' = WriteLines(rt_entries)
    /\ UNCHANGED <<rt_entries, rt_encoding, rt_corpus>>
    /\ UNCHANGED <<pc, exitStatus, discVars, diskVars, memVars, histVars,
                   srchVars, metVars, chatVars, truncVars, chunkVars>>

\* Lines 177-183 of rag_app.py: the service loads the file the tool wrote.
LoadWritten ==
    /\ rt_file # NoBytes
    /\ rt_corpus = NotLoaded
    /\ rt_corpus' = LoadBytes(rt_file, rt_encoding)
    /\ UNCHANGED <<rt_entries, rt_encoding, rt_file>>
    /\ UNCHANGED <<pc, exitStatus, discVars, diskVars, memVars, histVars,
                   srchVars, metVars, chatVars, truncVars, chunkVars>>

\* The generation capability, rag.generate: the answer is a function of the
\* context and the question.
Generate(ctx, question) == [context |-> ctx, question |-> question]

NoAnswer == Generate(<<>>, <<>>)

\* full_response of lines 319-322: the answer, then one line per passage.
FullResponse(ans, ctx) ==
    [answer |-> ans,
     sources |-> [i \in DOMAIN ctx |-> smart_truncate(ctx[i], DISPLAY_LEN)]]

\* What an exception carries: str(e).
NoExc == ""

ExcTexts == {"connection refused", "read timed out"}

\* user_message of lines 337-340, built while handling exception e.
user_message_with_exception(e) ==
    <<"I encountered an error processing your question. Please try:",
      "* Rephrasing your question",
      "* Making your question more specific",
      "* Checking if the service is running properly",
      e>>

user_message(e) ==
    <<"I encountered an error processing your question. Please try:",
      "* Rephrasing your question",
      "* Making your question more specific",
      "* Checking if the service is running properly">>

\* What rag_chat returned: the pipeline state it ended in, the text and the
\* history.
NoReply == [kind |-> "none", text |-> <<>>, history |-> NoHistory]

\* ---------------------------------------------- the query handler: actions
\* One request is handled at a time here; concurrent calls of the retriever
\* and of the collector are the subject of SpecSearch and SpecMetrics.

Handlers == {1}

\* Lines 301-306: the front end calls rag_chat; the clock is read.
SubmitBeforeReady(t) ==
    /\ cpc[t] = "idle"
    /\ mpc[t] = "idle"
    /\ tpc[t] = "idle"
    /\ calls.n < MaxQueries
    /\ \E m \in Messages : message' = [message EXCEPT ![t] = m]
    /\ \E h \in Histories : history' = [history EXCEPT ![t] = h]
    /\ \E now \in Clock : start_time' = [start_time EXCEPT ![t] = now]
    /\ reply' = [reply EXCEPT ![t] = NoReply]
    /\ recorded' = [recorded EXCEPT ![t] = <<>>]
    /\ raised' = [raised EXCEPT ![t] = NoExc]
    /\ cpc' = [cpc EXCEPT ![t] = "validate"]
    /\ stats' = [stats EXCEPT ![t] = NoStats]
    /\ UNCHANGED <<verdict, context, answer>>
    /\ UNCHANGED <<query_count, error_count, total_latency, mlock, mpc, margs,
                   mreg, calls>>
    /\ UNCHANGED <<pc, exitStatus, discVars, diskVars, memVars, histVars,
                   srchVars>>
    /\ UNCHANGED fnVars

Submit(t) ==
    /\ pc = "serving"
    /\ cpc[t] = "idle"
    /\ mpc[t] = "idle"
    /\ tpc[t] = "idle"
    /\ calls.n < MaxQueries
    /\ \E m \in Messages : message' = [message EXCEPT ![t] = m]
    /\ \E h \in Histories : history' = [history EXCEPT ![t] = h]
    /\ \E now \in Clock : start_time' = [start_time EXCEPT ![t] = now]
    /\ reply' = [reply EXCEPT ![t] = NoReply]
    /\ recorded' = [recorded EXCEPT ![t] = <<>>]
    /\ raised' = [raised EXCEPT ![t] = NoExc]
    /\ cpc' = [cpc EXCEPT ![t] = "validate"]
    /\ stats' = [stats EXCEPT ![t] = NoStats]
    /\ UNCHANGED <<verdict, context, answer>>
    /\ UNCHANGED <<query_count, error_count, total_latency, mlock, mpc, margs,
                   mreg, calls>>
    /\ UNCHANGED <<pc, exitStatus, discVars, diskVars, memVars, histVars,
                   srchVars>>
    /\ UNCHANGED fnVars

\* Line 309: valid, error_msg = validate_input(message).
Validate(t) ==
    /\ cpc[t] = "validate"
    /\ verdict' = [verdict EXCEPT ![t] = validate_input(message[t])]
    /\ cpc' = [cpc EXCEPT ![t] = "validated"]
    /\ UNCHANGED <<message, history, start_time, context, answer, reply,
                   recorded, raised>>
    /\ UNCHANGED <<pc, exitStatus, discVars, diskVars, memVars, histVars,
                   srchVars, metVars>>
    /\ UNCHANGED fnVars

\* Lines 310-311: an invalid message is answered with the validator's text.
Reject(t) ==
    /\ cpc[t] = "validated"
    /\ ~verdict[t].valid
    /\ reply' = [reply EXCEPT ![t] =
                    [kind |-> "rejected", text |-> verdict[t].error_msg,
                     history |-> history[t]]]
    /\ verdict' = [verdict EXCEPT ![t] = NoVerdict]
    /\ start_time' = [start_time EXCEPT ![t] = NoTime]
    /\ cpc' = [cpc EXCEPT ![t] = "idle"]
    /\ UNCHANGED <<message, history, context, answer, recorded, raised>>
    /\ UNCHANGED <<pc, exitStatus, discVars, diskVars, memVars, histVars,
                   srchVars, metVars>>
    /\ UNCHANGED fnVars

\* Lines 313-315 and 264: inside the try, rag(message) calls the retriever
\* with the question and k = RETRIEVER_K.
RetrieveWhateverVerdict(t) ==
    /\ cpc[t] = "validated"
    /\ verdict' = [verdict EXCEPT ![t] = NoVerdict]
    /\ call' = [call EXCEPT ![t] = [single |-> TRUE,
                                    queries |-> <<message[t].text>>,
                                    k |-> RETRIEVER_K]]
    /\ qi' = [qi EXCEPT ![t] = 1]
    /\ all_passages' = [all_passages EXCEPT ![t] = <<>>]
    /\ result' = [result EXCEPT ![t] = NoResult]
    /\ tpc' = [tpc EXCEPT ![t] = "loop"]
    /\ cpc' = [cpc EXCEPT ![t] = "retrieving"]
    /\ UNCHANGED <<lock, enc_buf, idx_buf, q_emb, found>>
    /\ UNCHANGED <<message, history, start_time, context, answer, reply,
                   recorded, raised>>
    /\ UNCHANGED <<pc, exitStatus, discVars, diskVars, memVars, histVars,
                   metVars>>
    /\ UNCHANGED fnVars

RetrieveStartsTimer(t) ==
    /\ cpc[t] = "validated"
    /\ verdict[t].valid
    /\ verdict' = [verdict EXCEPT ![t] = NoVerdict]
    /\ call' = [call EXCEPT ![t] = [single |-> TRUE,
                                    queries |-> <<message[t].text>>,
                                    k |-> RETRIEVER_K]]
    /\ qi' = [qi EXCEPT ![t] = 1]
    /\ all_passages' = [all_passages EXCEPT ![t] = <<>>]
    /\ result' = [result EXCEPT ![t] = NoResult]
    /\ tpc' = [tpc EXCEPT ![t] = "loop"]
    /\ cpc' = [cpc EXCEPT ![t] = "retrieving"]
    /\ UNCHANGED <<lock, enc_buf, idx_buf, q_emb, found>>
    /\ \E now \in Clock : start_time' = [start_time EXCEPT ![t] = now]
    /\ UNCHANGED <<message, history, context, answer, reply, recorded, raised>>
    /\ UNCHANGED <<pc, exitStatus, discVars, diskVars, memVars, histVars,
                   metVars>>
    /\ UNCHANGED fnVars

Retrieve(t) ==
    /\ cpc[t] = "validated"
    /\ verdict[t].valid
    /\ verdict' = [verdict EXCEPT ![t] = NoVerdict]
    /\ call' = [call EXCEPT ![t] = [single |-> TRUE,
                                    queries |-> <<message[t].text>>,
                                    k |-> RETRIEVER_K]]
    /\ qi' = [qi EXCEPT ![t] = 1]
    /\ all_passages' = [all_passages EXCEPT ![t] = <<>>]
    /\ result' = [result EXCEPT ![t] = NoResult]
    /\ tpc' = [tpc EXCEPT ![t] = "loop"]
    /\ cpc' = [cpc EXCEPT ![t] = "retrieving"]
    /\ UNCHANGED <<lock, enc_buf, idx_buf, q_emb, found>>
    /\ UNCHANGED <<message, history, start_time, context, answer, reply,
                   recorded, raised>>
    /\ UNCHANGED <<pc, exitStatus, discVars, diskVars, memVars, histVars,
                   metVars>>
    /\ UNCHANGED fnVars

\* Line 264: the retriever returned; context = retrieve(question).passages.
Retrieved(t) ==
    /\ cpc[t] = "retrieving"
    /\ tpc[t] = "idle"
    /\ result[t].kind = "one"
    /\ context' = [context EXCEPT ![t] = result[t].passages[1]]
    /\ result' = [result EXCEPT ![t] = NoResult]
    /\ call' = [call EXCEPT ![t] = NoCall]
    /\ qi' = [qi EXCEPT ![t] = 1]
    /\ cpc' = [cpc EXCEPT ![t] = "generating"]
    /\ UNCHANGED <<lock, enc_buf, idx_buf, tpc, q_emb, found, all_passages>>
    /\ UNCHANGED <<message, history, start_time, verdict, answer, reply,
                   recorded, raised>>
    /\ UNCHANGED <<pc, exitStatus, discVars, diskVars, memVars, histVars,
                   metVars>>
    /\ UNCHANGED fnVars

\* Line 331: an exception left the retriever and is caught.
RetrieveFailed(t) ==
    /\ cpc[t] = "retrieving"
    /\ tpc[t] = "idle"
    /\ result[t].kind \in {"raised", "index_error"}
    /\ \E e \in ExcTexts : raised' = [raised EXCEPT ![t] = e]
    /\ result' = [result EXCEPT ![t] = NoResult]
    /\ call' = [call EXCEPT ![t] = NoCall]
    /\ qi' = [qi EXCEPT ![t] = 1]
    /\ cpc' = [cpc EXCEPT ![t] = "except"]
    /\ UNCHANGED <<lock, enc_buf, idx_buf, tpc, q_emb, found, all_passages>>
    /\ UNCHANGED <<message, history, start_time, verdict, context, answer,
                   reply, recorded>>
    /\ UNCHANGED <<pc, exitStatus, discVars, diskVars, memVars, histVars,
                   metVars>>
    /\ UNCHANGED fnVars

\* Lines 265-266 and 316: the generation capability answers.
GeneratedFromQuestionOnly(t) ==
    /\ cpc[t] = "generating"
    /\ answer' = [answer EXCEPT ![t] = Generate(<<>>, message[t].text)]
    /\ cpc' = [cpc EXCEPT ![t] = "formatting"]
    /\ UNCHANGED <<message, history, start_time, verdict, context, reply,
                   recorded, raised>>
    /\ UNCHANGED <<pc, exitStatus, discVars, diskVars, memVars, histVars,
                   srchVars, metVars>>
    /\ UNCHANGED fnVars

Generated(t) ==
    /\ cpc[t] = "generating"
    /\ answer' = [answer EXCEPT ![t] = Generate(context[t], message[t].text)]
    /\ cpc' = [cpc EXCEPT ![t] = "formatting"]
    /\ UNCHANGED <<message, history, start_time, verdict, context, reply,
                   recorded, raised>>
    /\ UNCHANGED <<pc, exitStatus, discVars, diskVars, memVars, histVars,
                   srchVars, metVars>>
    /\ UNCHANGED fnVars

\* Line 265: the generation capability raises (backend down, timeout).
GenerateFailed(t) ==
    /\ cpc[t] = "generating"
    /\ \E e \in ExcTexts : raised' = [raised EXCEPT ![t] = e]
    /\ context' = [context EXCEPT ![t] = <<>>]
    /\ cpc' = [cpc EXCEPT ![t] = "except"]
    /\ UNCHANGED <<message, history, start_time, verdict, answer, reply,
                   recorded>>
    /\ UNCHANGED <<pc, exitStatus, discVars, diskVars, memVars, histVars,
                   srchVars, metVars>>
    /\ UNCHANGED fnVars

\* Lines 319-326: the response is put together, the clock is read and the
\* success is recorded.
Format(t) ==
    /\ cpc[t] = "formatting"
    /\ \E now \in Clock : EnterRecordQuery(t, now - start_time[t], TRUE)
    /\ cpc' = [cpc EXCEPT ![t] = "recording_done"]
    /\ UNCHANGED <<message, history, start_time, verdict, context, answer,
                   reply, recorded, raised>>
    /\ UNCHANGED <<pc, exitStatus, discVars, diskVars, memVars, histVars,
                   srchVars>>
    /\ UNCHANGED fnVars

\* Lines 327-329: record_query has returned; the new turn is appended to
\* history, which raises TypeError when history is no list.
Done(t) ==
    /\ cpc[t] = "recording_done"
    /\ mpc[t] = "idle"
    /\ IF history[t].list
       THEN /\ reply' = [reply EXCEPT ![t] =
                   LET full_response == FullResponse(answer[t], context[t])
                   IN  [kind |-> "done", text |-> full_response,
                        history |->
                           [history[t] EXCEPT !.turns =
                               Append(@, <<message[t], full_response>>)]]]
            /\ start_time' = [start_time EXCEPT ![t] = NoTime]
            /\ cpc' = [cpc EXCEPT ![t] = "idle"]
            /\ UNCHANGED raised
       ELSE /\ raised' = [raised EXCEPT ![t] = "TypeError"]
            /\ cpc' = [cpc EXCEPT ![t] = "except"]
            /\ UNCHANGED <<reply, start_time>>
    /\ context' = [context EXCEPT ![t] = <<>>]
    /\ answer' = [answer EXCEPT ![t] = NoAnswer]
    /\ UNCHANGED <<message, history, verdict, recorded>>
    /\ UNCHANGED <<pc, exitStatus, discVars, diskVars, memVars, histVars,
                   srchVars, metVars>>
    /\ UNCHANGED fnVars

\* Lines 331-333: the exception is caught, the clock is read and the
\* failure is recorded.
Except(t) ==
    /\ cpc[t] = "except"
    /\ \E now \in Clock : EnterRecordQuery(t, now - start_time[t], FALSE)
    /\ cpc' = [cpc EXCEPT ![t] = "recording_failed"]
    /\ UNCHANGED <<message, history, start_time, verdict, context, answer,
                   reply, recorded, raised>>
    /\ UNCHANGED <<pc, exitStatus, discVars, diskVars, memVars, histVars,
                   srchVars>>
    /\ UNCHANGED fnVars

\* Lines 335-342: the exception is logged and the user message returned.
Failed(t) ==
    /\ cpc[t] = "recording_failed"
    /\ mpc[t] = "idle"
    /\ reply' = [reply EXCEPT ![t] =
                    [kind |-> "failed", text |-> user_message(raised[t]),
                     history |-> history[t]]]
    /\ start_time' = [start_time EXCEPT ![t] = NoTime]
    /\ cpc' = [cpc EXCEPT ![t] = "idle"]
    /\ UNCHANGED <<message, history, verdict, context, answer, recorded,
                   raised>>
    /\ UNCHANGED <<pc, exitStatus, discVars, diskVars, memVars, histVars,
                   srchVars, metVars>>
    /\ UNCHANGED fnVars

\* ---------------------------------------------------------- specifications

InitServing ==
    /\ query_count = 0
    /\ error_count = 0
    /\ total_latency = 0
    /\ mlock = 0
    /\ mpc = [t \in Threads |-> "idle"]
    /\ margs = [t \in Threads |-> NoArgs]
    /\ mreg = [t \in Threads |-> 0]
    /\ stats = [t \in Threads |-> NoStats]
    /\ calls = [n |-> 0, e |-> 0]
    /\ cpc = [t \in Threads |-> "idle"]
    /\ message = [t \in Threads |-> NoMessage]
    /\ history = [t \in Threads |-> NoHistory]
    /\ start_time = [t \in Threads |-> NoTime]
    /\ verdict = [t \in Threads |-> NoVerdict]
    /\ context = [t \in Threads |-> <<>>]
    /\ answer = [t \in Threads |-> NoAnswer]
    /\ reply = [t \in Threads |-> NoReply]
    /\ recorded = [t \in Threads |-> <<>>]
    /\ raised = [t \in Threads |-> NoExc]

\* No function is being called on its own.
InitNoTruncate ==
    /\ st_text = <<>>
    /\ st_max_len = 1
    /\ st_result = NoText

InitNoChunking ==
    /\ ct_sentences = <<>>
    /\ ct_max_tokens = 1
    /\ ct_overlap = 0
    /\ ct_chunks = NoChunks

InitNoRoundTrip ==
    /\ rt_entries = <<>>
    /\ rt_encoding = "utf-8"
    /\ rt_file = NoBytes
    /\ rt_corpus = NotLoaded

InitNoCall == InitNoTruncate /\ InitNoChunking /\ InitNoRoundTrip

InitProcess ==
    /\ InitServing
    /\ InitNoCall
    /\ pc = "detect"
    /\ exitStatus = 0
    /\ attempt = 0
    /\ polls = 0
    /\ sleeps = 0
    /\ OLLAMA_MODEL = NoModel
    /\ corpus = <<>>
    /\ index = NoIndex
    /\ current_hash = <<>>
    /\ loaded = <<>>
    /\ embedded = FALSE
    /\ edited = FALSE
    /\ lastBuild = NoBuild
    /\ builds = {}
    /\ lock = 0
    /\ enc_buf = <<>>
    /\ idx_buf = {}
    /\ tpc = [t \in Threads |-> "idle"]
    /\ call = [t \in Threads |-> NoCall]
    /\ qi = [t \in Threads |-> 1]
    /\ q_emb = [t \in Threads |-> {}]
    /\ found = [t \in Threads |-> <<>>]
    /\ all_passages = [t \in Threads |-> <<>>]
    /\ result = [t \in Threads |-> NoResult]

NextStartup ==
    \/ CorpusExists \/ LoadCorpus \/ Decide \/ Encode \/ WriteIndex
    \/ HashAgain \/ OpenHash \/ WriteHash \/ ReadIndex \/ Ready

\* Discovery against every sequence of backend responses, then the rest of
\* the startup on a disk that holds a corpus with its index and fingerprint
\* (the reuse path).
InitDiscovery ==
    /\ InitProcess
    /\ env_model \in EnvValues
    /\ max_retries \in 1..MaxRetries
    /\ responses \in [1..max_retries -> Responses]
    /\ corpus_file = File(<<LineA, LineB>>)
    /\ index_file = [exists |-> TRUE,
                     idx |-> BuildIndex(ParseCorpus(corpus_file.lines),
                                        corpus_file.lines)]
    /\ hash_file = [exists |-> TRUE,
                    text |-> Text(compute_corpus_hash(corpus_file))]

NextDiscovery ==
    \/ DetectStart \/ Poll \/ Sleep \/ Exhausted
    \/ CorpusExists \/ LoadCorpus \/ Decide \/ ReadIndex \/ Ready

SpecDiscovery == InitDiscovery /\ [][NextDiscovery]_vars

SpecDiscoveryFair == SpecDiscovery /\ WF_vars(NextDiscovery)

\* Serving: the startup has finished on a three-passage corpus, and the
\* threads of the front end call the retriever in any interleaving.
LineC == [ok |-> TRUE, text |-> <<1, 2>>]

ServedLines == <<LineA, LineB, LineC>>

InitServed ==
    /\ InitServing
    /\ pc = "serving"
    /\ exitStatus = 0
    /\ env_model = "custom"
    /\ max_retries = 1
    /\ responses = [i \in 1..1 |-> RespNetFail]
    /\ attempt = 0
    /\ polls = 0
    /\ sleeps = 0
    /\ OLLAMA_MODEL = "custom"
    /\ corpus_file = File(ServedLines)
    /\ index_file = [exists |-> TRUE,
                     idx |-> BuildIndex(ParseCorpus(ServedLines), ServedLines)]
    /\ hash_file = [exists |-> TRUE,
                    text |-> Text(compute_corpus_hash(corpus_file))]
    /\ corpus = ParseCorpus(ServedLines)
    /\ index = BuildIndex(ParseCorpus(ServedLines), ServedLines)
    /\ current_hash = <<>>
    /\ loaded = ServedLines
    /\ embedded = FALSE
    /\ edited = FALSE
    /\ lastBuild = NoBuild
    /\ builds = {}
    /\ lock = 0
    /\ enc_buf = <<>>
    /\ idx_buf = {}
    /\ tpc = [t \in Threads |-> "idle"]
    /\ call = [t \in Threads |-> NoCall]
    /\ qi = [t \in Threads |-> 1]
    /\ q_emb = [t \in Threads |-> {}]
    /\ found = [t \in Threads |-> <<>>]
    /\ all_passages = [t \in Threads |-> <<>>]
    /\ result = [t \in Threads |-> NoResult]

InitSearch == InitServed /\ InitNoCall

NextSearch ==
    \E t \in Threads :
        \/ Call(t) \/ LoopHead(t) \/ Acquire(t) \/ EncodeBegin(t)
        \/ EncodeEnd(t) \/ SearchBegin(t) \/ SearchEnd(t) \/ Release(t)
        \/ Raise(t) \/ Filter(t) \/ Return(t)

SpecSearch == InitSearch /\ [][NextSearch]_vars

\* The same under fair scheduling: a thread inside forward keeps running
\* (weak fairness of each of its steps but the acquisition), and a thread
\* that waits at line 228 gets the lock if the lock is free again and again
\* (strong fairness of the acquisition).  Nothing obliges a thread to call.
ForwardStep(t) ==
    \/ LoopHead(t) \/ EncodeBegin(t) \/ EncodeEnd(t) \/ SearchBegin(t)
    \/ SearchEnd(t) \/ Release(t) \/ Filter(t) \/ Return(t)

SpecSearchFair ==
    /\ SpecSearch
    /\ \A t \in Threads : WF_vars(ForwardStep(t)) /\ SF_vars(Acquire(t))

\* smart_truncate called on its own, with every text and limit.
InitTruncate ==
    /\ InitServed
    /\ st_text \in TruncTexts
    /\ st_max_len \in TruncLens
    /\ st_result = NoText
    /\ InitNoChunking
    /\ InitNoRoundTrip

SpecTruncate == InitTruncate /\ [][SmartTruncate]_vars

\* semantic_chunk_text called on its own, with every text, every max_tokens
\* and every overlap_sentences from 0 on.
InitChunking ==
    /\ InitServed
    /\ InitNoTruncate
    /\ ct_sentences \in SentenceTexts
    /\ ct_max_tokens \in 1..MaxTokens
    /\ ct_overlap \in 0..MaxOverlap
    /\ ct_chunks = NoChunks
    /\ InitNoRoundTrip

SpecChunking == InitChunking /\ [][SemanticChunkText]_vars

\* A tool writes a corpus of every list of entries, and the service, under
\* either locale, loads it.
InitRoundTrip ==
    /\ InitServed
    /\ InitNoTruncate
    /\ InitNoChunking
    /\ rt_entries \in EntryLists
    /\ rt_encoding \in Encodings
    /\ rt_file = NoBytes
    /\ rt_corpus = NotLoaded

NextRoundTrip == WriteCorpus \/ LoadWritten

SpecRoundTrip == InitRoundTrip /\ [][NextRoundTrip]_vars

\* Serving: threads call record_query and get_stats of the collector in any
\* interleaving.
NextMetrics ==
    \E t \in Threads :
        \/ RecordQuery(t) \/ RecordAcquire(t) \/ CountLoad(t)
        \/ CountStore(t) \/ LatencyLoad(t) \/ LatencyStore(t)
        \/ ErrorLoad(t) \/ ErrorStore(t) \/ RecordRelease(t)
        \/ GetStats(t) \/ StatsAcquire(t) \/ StatsCompute(t)

SpecMetrics == InitSearch /\ [][NextMetrics]_vars

\* Serving: every thread is, at any moment, outside both components, inside
\* forward (as rag_chat is from line 314) or inside record_query or get_stats
\* (as rag_chat is at lines 326 and 333, and the Refresh Stats button).
SearchCall(t) ==
    /\ mpc[t] = "idle"
    /\ Call(t)
    /\ call'[t] = [single |-> TRUE, queries |-> <<Query2>>, k |-> 1]

MetricsCall(t) ==
    /\ tpc[t] = "idle"
    /\ \/ RecordQuery(t) /\ margs'[t].latency = 0
       \/ GetStats(t)

SearchStep(t) ==
    \/ LoopHead(t) \/ Acquire(t) \/ EncodeBegin(t) \/ EncodeEnd(t)
    \/ SearchBegin(t) \/ SearchEnd(t) \/ Release(t) \/ Raise(t)
    \/ Filter(t) \/ Return(t)

MetricsStep(t) ==
    \/ RecordAcquire(t) \/ CountLoad(t) \/ CountStore(t) \/ LatencyLoad(t)
    \/ LatencyStore(t) \/ ErrorLoad(t) \/ ErrorStore(t) \/ RecordRelease(t)
    \/ StatsAcquire(t) \/ StatsCompute(t)

NextLocks ==
    \E t \in Threads :
        SearchCall(t) \/ MetricsCall(t) \/ SearchStep(t) \/ MetricsStep(t)

SpecLocks == InitSearch /\ [][NextLocks]_vars

\* Serving: the front end calls rag_chat with any message, and get_stats.
NextChat ==
    \E t \in Handlers :
        \/ Submit(t) \/ Validate(t) \/ Reject(t) \/ Retrieve(t)
        \/ LoopHead(t) \/ Acquire(t) \/ EncodeBegin(t) \/ EncodeEnd(t)
        \/ SearchBegin(t) \/ SearchEnd(t) \/ Release(t) \/ Raise(t)
        \/ Filter(t) \/ Return(t) \/ Retrieved(t) \/ RetrieveFailed(t)
        \/ Generated(t) \/ GenerateFailed(t) \/ Format(t)
        \/ RecordAcquire(t) \/ CountLoad(t) \/ CountStore(t)
        \/ LatencyLoad(t) \/ LatencyStore(t) \/ ErrorLoad(t)
        \/ ErrorStore(t) \/ RecordRelease(t) \/ Done(t) \/ Except(t)
        \/ Failed(t) \/ GetStats(t) \/ StatsAcquire(t) \/ StatsCompute(t)

SpecChat == InitSearch /\ [][NextChat]_vars

\* The whole service: one startup and then the front end calling rag_chat.
\* Either the override is set and the disk holds a persisted index, or
\* discovery polls a backend that answers, fails or is not ready yet and the
\* index has to be built; the corpus file is usable, broken or missing.
ServiceResponses ==
    {<<RespNetFail, RespOneModel>>, <<RespNetFail, RespNetFail>>,
     <<RespNotObject, RespOneModel>>}

InitService ==
    /\ InitProcess
    /\ env_model \in {NoEnv, "custom"}
    /\ max_retries = 2
    /\ responses \in ServiceResponses
    /\ env_model = "custom" => responses = <<RespNetFail, RespNetFail>>
    /\ corpus_file \in {NoFile, File(<<LineA, BadLine>>), File(<<LineA, LineB>>)}
    /\ index_file =
          IF env_model = "custom"
          THEN [exists |-> TRUE,
                idx |-> BuildIndex(ParseCorpus(<<LineA, LineB>>),
                                   <<LineA, LineB>>)]
          ELSE NoIndexFile
    /\ hash_file =
          IF index_file.exists
          THEN [exists |-> TRUE,
                text |-> Text(compute_corpus_hash(File(<<LineA, LineB>>)))]
          ELSE NoHashFile

NextService ==
    \/ DetectStart \/ Poll \/ Sleep \/ Exhausted \/ NextStartup \/ NextChat

SpecService == InitService /\ [][NextService]_vars

\* ---------------------------------------------- properties of the retriever

\* The passages forward owes for query q and argument k.
Expected(q, k) == Passages(corpus, IndexSearch(index, Embed(q), EffectiveK(k)))

InSection(t) ==
    tpc[t] \in {"encode", "encoding", "search", "searching", "release"}

\* C1: at most one thread at a time is between the start of embedding its
\* query and the end of the index search for it.
C1_MutualExclusion ==
    \A t, u \in Threads : (InSection(t) /\ InSection(u)) => t = u

C1_Witness ==
    \E t, u \in Threads :
        /\ t # u
        /\ tpc[t] = "searching"
        /\ tpc[u] = "acquire"

\* C2: whatever the interleaving, the passages a call has collected for its
\* i-th query, and the passages it returns, are the index's search result
\* for the embedding of that query of its own.
C2_OwnResults ==
    \A t \in Threads :
        /\ Len(all_passages[t]) <= Len(call[t].queries)
        /\ \A i \in 1..Len(all_passages[t]) :
              all_passages[t][i] = Expected(call[t].queries[i], call[t].k)
        /\ result[t].kind \in {"one", "list"} =>
              /\ Len(result[t].passages) = Len(call[t].queries)
              /\ \A i \in 1..Len(result[t].passages) :
                    result[t].passages[i] =
                        Expected(call[t].queries[i], call[t].k)

C2_Witness ==
    \E t, u \in Threads :
        /\ t # u
        /\ result[t].kind = "one"
        /\ result[u].kind = "list"
        /\ Len(result[u].passages) = 2
        /\ call[t].queries[1] # call[u].queries[1]
        /\ result[t].passages[1] # result[u].passages[1]

\* ------------------------------------------------ properties of discovery

DiscoveryPcs == {"detect", "poll", "sleep", "exhausted"}

StartupPcs ==
    {"corpus_exists", "load_corpus", "decide", "encode", "write_index",
     "hash_again", "open_hash", "write_hash", "read_index", "ready", "serving"}

NoOverride == env_model \in {NoEnv, ""}

\* A response that is successful and lists at least one model, the first
\* of which carries a name.
Usable(r) ==
    /\ r.http = "ok"
    /\ r.body = "object"
    /\ r.models.tag = "list"
    /\ Len(r.models.items) >= 1
    /\ r.models.items[1] # NoName

\* The earliest usable poll within the attempt limit, 0 when there is none.
FirstUsable ==
    IF \E i \in 1..max_retries : Usable(responses[i])
    THEN CHOOSE i \in 1..max_retries :
            /\ Usable(responses[i])
            /\ \A j \in 1..(i - 1) : ~Usable(responses[j])
    ELSE 0

\* C7: with no override, once discovery has ended and some poll within the
\* limit is usable, discovery has returned the first-listed name of the
\* earliest usable poll, at that poll; and whenever it returns a name it is
\* that one, after exactly that many polls.
C7_ReturnsEarliestUsable ==
    (NoOverride /\ pc \notin DiscoveryPcs) =>
        /\ FirstUsable # 0 =>
              /\ OLLAMA_MODEL = responses[FirstUsable].models.items[1]
              /\ polls = FirstUsable
        /\ OLLAMA_MODEL # NoModel =>
              /\ FirstUsable # 0
              /\ polls = FirstUsable

\* C8: every poll whose response is not usable (network failure, zero
\* models, invalid JSON, malformed structure, a top-level value that is no
\* object) is one attempt, raises nothing out of discovery, and is followed
\* by the next attempt if one remains.
C8_NotReadyIsRetried ==
    [][(pc = "poll" /\ ~Usable(responses[attempt])) =>
          /\ polls' = polls + 1
          /\ exitStatus' = 0
          /\ IF attempt < max_retries
             THEN \/ pc' = "poll" /\ attempt' = attempt + 1
                  \/ pc' = "sleep" /\ attempt' = attempt
             ELSE pc' = "exhausted"]_vars

\* C9: with no override, discovery polls at most max_retries times and
\* ends; when no poll gave a usable name the process ends with a non-zero
\* status and never reaches corpus loading, index setup or serving.
C9_BoundedThenFatal ==
    /\ [](polls <= max_retries)
    /\ [](NoOverride /\ OLLAMA_MODEL = NoModel => pc \notin StartupPcs)
    /\ <>[](/\ pc \notin DiscoveryPcs
            /\ (NoOverride /\ FirstUsable = 0) =>
                  (pc \in {"exited", "crashed"} /\ exitStatus # 0))

C9_Witness ==
    /\ NoOverride
    /\ max_retries = MaxRetries
    /\ polls = max_retries
    /\ pc = "exited"
    /\ exitStatus = 1

\* C10: with a non-empty override, discovery returns exactly the override
\* and makes no poll and no sleep.
C10_OverrideNoPolls ==
    ~NoOverride =>
        /\ polls = 0
        /\ sleeps = 0
        /\ pc \notin {"poll", "sleep", "exhausted"}
        /\ pc # "detect" => OLLAMA_MODEL = env_model

C10_Witness ==
    /\ env_model = "custom"
    /\ pc = "serving"
    /\ OLLAMA_MODEL = "custom"
    /\ polls = 0
    /\ responses[1] = RespOneModel

\* C11: between every two consecutive polls the retry delay is waited
\* exactly once, whatever made the earlier poll not ready, and none is
\* waited after the last poll: when the next poll is about to be made there
\* have been as many sleeps as polls, at any other moment one less.
C11_DelayBetweenPolls ==
    sleeps = IF pc = "poll" \/ polls = 0 THEN polls ELSE polls - 1


\* One startup with the override set, on every disk: any corpus file or
\* none, any index file or none, any fingerprint file or none.
InitDecide ==
    /\ InitProcess
    /\ env_model = "custom"
    /\ max_retries = 1
    /\ responses = [i \in 1..1 |-> RespNetFail]
    /\ corpus_file \in {NoFile} \cup {File(c) : c \in CorpusContents}
    /\ index_file \in {NoIndexFile} \cup
          {[exists |-> TRUE, idx |-> BuildIndex(ParseCorpus(c), c)] :
              c \in GoodContents}
    /\ hash_file \in {NoHashFile, [exists |-> TRUE, text |-> EmptyText]} \cup
          {[exists |-> TRUE, text |-> Text(compute_corpus_hash(File(c)))] :
              c \in CorpusContents}

NextDecide == DetectStart \/ NextStartup

SpecDecide == InitDecide /\ [][NextDecide]_vars

\* The main thread runs its module-level code to the end.
SpecDecideFair == SpecDecide /\ WF_vars(NextDecide)

\* One startup on a disk whose fingerprint file was written by anybody: a
\* digest or nothing, with or without white space before and after it.
SidecarTexts ==
    {[lead |-> l, hex |-> h, trail |-> r] :
        l \in BOOLEAN, r \in BOOLEAN,
        h \in {<<>>} \cup {compute_corpus_hash(File(c)) : c \in GoodContents}}

InitSidecar ==
    /\ InitProcess
    /\ env_model = "custom"
    /\ max_retries = 1
    /\ responses = [i \in 1..1 |-> RespNetFail]
    /\ corpus_file \in {File(c) : c \in CorpusContents}
    /\ index_file \in
          {[exists |-> TRUE, idx |-> BuildIndex(ParseCorpus(c), c)] :
              c \in GoodContents}
    /\ hash_file \in {[exists |-> TRUE, text |-> x] : x \in SidecarTexts}

SpecSidecar == InitSidecar /\ [][NextDecide]_vars

\* Startups, stops and corpus edits in any order, from an empty data
\* directory that holds only a corpus file.
InitIndex ==
    /\ InitProcess
    /\ env_model = "custom"
    /\ max_retries = 1
    /\ responses = [i \in 1..1 |-> RespNetFail]
    /\ corpus_file \in {File(c) : c \in CorpusVersions}
    /\ index_file = NoIndexFile
    /\ hash_file = NoHashFile

NextIndex == DetectStart \/ NextStartup \/ Stop \/ Restart \/ EditCorpus

SpecIndex == InitIndex /\ [][NextIndex]_vars

\* The same without interference: the service is stopped only once it
\* serves, and the corpus file is replaced only while no process runs.
StopServing == pc = "serving" /\ Stop

\* Between two runs the file may also come back with its lines reordered.
VersionsWhileDown == CorpusVersions \cup {<<LineB, LineA>>}

EditWhileDown == ~Running /\ ReplaceCorpus(VersionsWhileDown)

\* The life of the service: startups, stops at any step, the corpus file
\* replaced between two runs, and while it serves one thread calling the
\* retriever.
NextLife ==
    \/ DetectStart \/ NextStartup \/ Stop \/ Restart \/ EditWhileDown
    \/ Call(1) \/ LoopHead(1) \/ Acquire(1) \/ EncodeBegin(1) \/ EncodeEnd(1)
    \/ SearchBegin(1) \/ SearchEnd(1) \/ Release(1) \/ Raise(1) \/ Filter(1)
    \/ Return(1)

SpecLife == InitIndex /\ [][NextLife]_vars

NextIndexQuiet ==
    DetectStart \/ NextStartup \/ StopServing \/ Restart \/ EditWhileDown

SpecIndexQuiet == InitIndex /\ [][NextIndexQuiet]_vars

\* ------------------------------------- properties of the index lifecycle

\* C3: should_rebuild_index answers "reuse" exactly when the index file
\* exists, the fingerprint file exists and the persisted fingerprint equals
\* the digest of the corpus file; in every other combination "rebuild".
C3_ReuseIffAllThree ==
    [][(pc = "decide" /\ pc' # "decide") =>
          /\ pc' \in {"read_index", "encode"}
          /\ pc' = "read_index" <=>
                /\ index_file.exists
                /\ hash_file.exists
                /\ hash_file.text = Text(compute_corpus_hash(corpus_file))]_vars

C3_Witness ==
    /\ pc = "read_index"
    /\ index_file.exists
    /\ hash_file.exists
    /\ hash_file.text = Text(compute_corpus_hash(corpus_file))

\* The startup at hand runs on the corpus file the last rebuild persisted
\* index and fingerprint for, and no startup has begun a rebuild since.
SinceLastBuild ==
    /\ lastBuild.done
    /\ lastBuild.clean
    /\ lastBuild.latest
    /\ ~edited
    /\ corpus_file.lines = lastBuild.lines

\* C4 as stated: once some startup has completed a rebuild for a corpus
\* file, every later startup on a byte-identical corpus file takes the
\* reuse path.
C4_ReuseAfterAnyBuild ==
    [][(/\ pc = "decide"
        /\ ~edited
        /\ corpus_file.lines \in builds
        /\ pc' \notin {"decide", "stopped"}) => pc' = "read_index"]_vars

\* C4 as amended: after a startup completed a rebuild, every later startup
\* on a byte-identical corpus file takes the reuse path, loads the persisted
\* index, does not embed the corpus and leaves index and fingerprint files
\* unchanged, as long as no startup in between has begun a rebuild.
C4_ReuseSinceLastBuild ==
    [][SinceLastBuild =>
          /\ (pc = "decide" /\ pc' \notin {"decide", "stopped"}) =>
                pc' = "read_index"
          /\ (pc = "read_index" /\ pc' = "ready") => index' = index_file.idx
          /\ embedded' => embedded
          /\ index_file' = index_file
          /\ hash_file' = hash_file]_vars

C4_Witness ==
    /\ SinceLastBuild
    /\ pc = "serving"
    /\ ~embedded
    /\ index = index_file.idx

\* C5: a startup whose corpus file differs from that of the last successful
\* build rebuilds, and when its rebuild completes the persisted fingerprint
\* is the digest of the new corpus file (and the persisted index the index
\* of its passages).  The corpus file of a startup, or of a build, is one
\* file: startups during which it is edited are not covered.
C5_RebuildOnChange ==
    [][/\ (/\ pc = "decide"
           /\ ~edited
           /\ lastBuild.done
           /\ lastBuild.clean
           /\ corpus_file.lines # lastBuild.lines
           /\ pc' \notin {"decide", "stopped"}) => pc' = "encode"
       /\ (pc = "write_hash" /\ pc' = "ready" /\ ~edited) =>
             /\ hash_file'.exists
             /\ hash_file'.text = Text(compute_corpus_hash(corpus_file'))
             /\ index_file'.exists
             /\ index_file'.idx =
                   BuildIndex(ParseCorpus(corpus_file'.lines),
                              corpus_file'.lines)]_vars

C5_Witness ==
    /\ pc = "ready"
    /\ embedded
    /\ ~edited
    /\ lastBuild.changed
    /\ hash_file.text = Text(compute_corpus_hash(corpus_file))

\* C6: index and fingerprint are persisted together: whenever an index
\* file is on disk, the fingerprint file is there too and holds the digest
\* of the corpus file that index was built from.
C6_PersistedTogether ==
    index_file.exists =>
        /\ hash_file.exists
        /\ hash_file.text = Text(compute_corpus_hash(File(index_file.idx.of)))

\* ------------------------------------------- properties of the query handler

\* The message is empty, missing or nothing but white space.
NoQuestion(m) == m.missing \/ Len(m.text) = 0 \/ Blank(m.text)

TooLong(m) == ~m.missing /\ Len(m.text) > MAX_QUERY_LENGTH

\* C12 as stated: validate_input rejects every empty, missing or
\* whitespace-only message with 'Please enter a question.', rejects every
\* message longer than the limit with a text that states the limit, and
\* accepts every other message.
C12_ValidateAsStated ==
    \A t \in Handlers :
        cpc[t] = "validated" =>
            /\ NoQuestion(message[t]) =>
                  /\ ~verdict[t].valid
                  /\ verdict[t].error_msg = ErrorMsg("Please enter a question.", 0)
            /\ TooLong(message[t]) =>
                  /\ ~verdict[t].valid
                  /\ verdict[t].error_msg.limit = MAX_QUERY_LENGTH
            /\ (~NoQuestion(message[t]) /\ ~TooLong(message[t])) =>
                  /\ verdict[t].valid
                  /\ verdict[t].error_msg = NoError

\* C12 as amended: the text that states the limit is the answer to every
\* message longer than the limit that is not whitespace-only; a
\* whitespace-only message gets 'Please enter a question.' whatever its
\* length.
C12_ValidateInput ==
    \A t \in Handlers :
        cpc[t] = "validated" =>
            /\ NoQuestion(message[t]) =>
                  /\ ~verdict[t].valid
                  /\ verdict[t].error_msg = ErrorMsg("Please enter a question.", 0)
            /\ (TooLong(message[t]) /\ ~NoQuestion(message[t])) =>
                  /\ ~verdict[t].valid
                  /\ verdict[t].error_msg.limit = MAX_QUERY_LENGTH
            /\ (~NoQuestion(message[t]) /\ ~TooLong(message[t])) =>
                  /\ verdict[t].valid
                  /\ verdict[t].error_msg = NoError

C12_Witness ==
    \E t \in Handlers :
        /\ cpc[t] = "validated"
        /\ Len(message[t].text) = MAX_QUERY_LENGTH + 1
        /\ ~Blank(message[t].text)
        /\ ~verdict[t].valid
        /\ verdict[t].error_msg.limit = MAX_QUERY_LENGTH

\* The message of thread t is one that validation rejects.
Invalid(t) == ~validate_input(message[t]).valid

\* C13: a query that validation rejects is answered with the validator's
\* message, never enters Retrieving or Generating (neither the retriever
\* nor the generation capability is called for it) and leaves query_count,
\* error_count and the cumulative latency as they were.
C13_RejectedTouchesNothing ==
    /\ [](\A t \in Handlers :
            Invalid(t) =>
                /\ cpc[t] \in {"idle", "validate", "validated"}
                /\ tpc[t] = "idle"
                /\ t \notin Recording
                /\ recorded[t] = <<>>
                /\ reply[t].kind \in {"none", "rejected"}
                /\ reply[t].kind = "rejected" =>
                      reply[t].text = validate_input(message[t]).error_msg)
    /\ [][\A t \in Handlers :
            (Invalid(t) /\ cpc[t] \in {"validate", "validated"}) =>
                /\ query_count' = query_count
                /\ error_count' = error_count
                /\ total_latency' = total_latency
                /\ UNCHANGED srchVars]_vars

C13_Witness ==
    \E t \in Handlers :
        /\ TooLong(message[t])
        /\ reply[t].kind = "rejected"
        /\ query_count > 0
        /\ error_count > 0

\* C14: a query that passes validation ends in Done or in Failed and is
\* recorded by exactly one record_query call: success=True when it ended in
\* Done, success=False when it ended in Failed, never two calls.
C14_RecordedOnce ==
    \A t \in Handlers :
        /\ Len(recorded[t]) <= 1
        /\ reply[t].kind = "done" => recorded[t] = <<TRUE>>
        /\ reply[t].kind = "failed" => recorded[t] = <<FALSE>>
        /\ (~Invalid(t) /\ cpc[t] = "idle") => reply[t].kind \in {"done", "failed"}

\* Thread t holds nothing of a query: no lock, no local of rag_chat or of
\* forward.
AtRest(t) ==
    /\ lock # t
    /\ mpc[t] = "idle" => mlock # t
    /\ tpc[t] = "idle"
    /\ call[t] = NoCall
    /\ qi[t] = 1
    /\ q_emb[t] = {}
    /\ found[t] = <<>>
    /\ all_passages[t] = <<>>
    /\ result[t].kind = "none"
    /\ verdict[t] = NoVerdict
    /\ start_time[t] = NoTime
    /\ context[t] = <<>>
    /\ answer[t] = NoAnswer

\* C15: an exception raised in Retrieving or Generating stays within its
\* query: rag_chat returns the failure message, the process keeps running,
\* and nothing but the counters is left behind, so that every later query
\* is answered from its own message alone, with the corpus and index of
\* the startup.
C15_FailureContained ==
    /\ pc = "serving"
    /\ exitStatus = 0
    /\ corpus = ParseCorpus(ServedLines)
    /\ index = BuildIndex(ParseCorpus(ServedLines), ServedLines)
    /\ lock = 0 => (enc_buf = <<>> /\ idx_buf = {})
    /\ \A t \in Handlers :
          /\ cpc[t] = "idle" => AtRest(t)
          /\ (cpc[t] = "idle" /\ raised[t] \in ExcTexts) =>
                /\ reply[t].kind = "failed"
                /\ reply[t].text = user_message(raised[t])
          /\ reply[t].kind = "done" =>
                LET ctx == Expected(message[t].text, RETRIEVER_K)
                IN  reply[t].text =
                        FullResponse(Generate(ctx, message[t].text), ctx)

C15_Witness ==
    \E t \in Handlers :
        /\ reply[t].kind = "done"
        /\ query_count = 2
        /\ error_count = 1
        /\ Len(reply[t].text.sources) > 1

\* Every exception text the handler can catch.
Caught == ExcTexts \cup {"TypeError"}

\* C16: the text returned for a Failed query is one fixed message: it is
\* the same whichever exception was raised, and no part of it is the
\* exception's text.
C16_GenericFailureText ==
    \A t \in Handlers :
        reply[t].kind = "failed" =>
            /\ raised[t] \in Caught
            /\ \A e \in Caught : reply[t].text = user_message(e)
            /\ \A i \in DOMAIN reply[t].text : reply[t].text[i] # raised[t]

C16_Witness ==
    \E t \in Handlers :
        /\ reply[t].kind = "failed"
        /\ raised[t] = "read timed out"
        /\ calls.e = 2

\* ------------------------------------------- properties of the collector

\* Thread t returns from get_stats in this step.
StatsReturns(t) == mpc[t] = "stats_compute" /\ mpc'[t] = "idle"

\* C17 as stated: after N record_query calls, E of them with success=False,
\* from any threads in any interleaving, the counters are N and E, and
\* get_stats reports N, E and the success rate (N-E)/N*100.
C17_NoLostUpdateExactRate ==
    /\ [](mlock = 0 => (query_count = calls.n /\ error_count = calls.e))
    /\ [][\A t \in Threads :
            StatsReturns(t) =>
                /\ stats'[t].total_queries = calls.n
                /\ stats'[t].errors = calls.e
                /\ calls.n > 0 =>
                      stats'[t].success_rate * calls.n =
                          (calls.n - calls.e) * 10000]_vars

\* C17 as amended: the same, with the success rate (N-E)/N*100 rounded to
\* two decimals, and 100 when N = 0.
C17_NoLostUpdate ==
    /\ [](mlock = 0 => (query_count = calls.n /\ error_count = calls.e))
    /\ [][\A t \in Threads :
            StatsReturns(t) =>
                /\ stats'[t].total_queries = calls.n
                /\ stats'[t].errors = calls.e
                /\ stats'[t].success_rate =
                      IF calls.n > 0
                      THEN Round((calls.n - calls.e) * 10000, calls.n)
                      ELSE 10000]_vars

C17_Witness ==
    \E t, u \in Threads :
        /\ t # u
        /\ stats[t].total_queries = 3
        /\ stats[t].errors = 1
        /\ stats[t].success_rate = 6667
        /\ calls.n = 3
        /\ mpc[u] = "stats_acquire"

\* C18 as stated: get_stats on a collector without recorded queries
\* returns average latency 0 and success rate 100; with total > 0 it
\* returns cumulative_latency / total and (total - errors) / total * 100.
C18_StatsExact ==
    [][\A t \in Threads :
          StatsReturns(t) =>
              IF query_count = 0
              THEN /\ stats'[t].avg_latency_sec = 0
                   /\ stats'[t].success_rate = 10000
              ELSE /\ stats'[t].avg_latency_sec * query_count = total_latency
                   /\ stats'[t].success_rate * query_count =
                          (query_count - error_count) * 10000]_vars

\* C18 as amended: with total > 0 the two quotients are returned rounded to
\* two decimals.
C18_StatsRounded ==
    [][\A t \in Threads :
          StatsReturns(t) =>
              IF query_count = 0
              THEN /\ stats'[t].avg_latency_sec = 0
                   /\ stats'[t].success_rate = 10000
              ELSE /\ stats'[t].avg_latency_sec =
                          Round(total_latency, query_count)
                   /\ stats'[t].success_rate =
                          Round((query_count - error_count) * 10000,
                                query_count)]_vars

C18_Witness ==
    \E t, u \in Threads :
        /\ mpc[t] = "idle"
        /\ stats[t].total_queries = 0
        /\ stats[t].avg_latency_sec = 0
        /\ stats[t].success_rate = 10000
        /\ stats[u].total_queries = 3
        /\ total_latency = 4
        /\ stats[u].avg_latency_sec = 1

\* C19: while the process runs, no step decreases or resets query_count,
\* error_count or the cumulative latency.
C19_CountersNeverDecrease ==
    [][/\ query_count' >= query_count
       /\ error_count' >= error_count
       /\ total_latency' >= total_latency]_vars

\* -------------------------------------------- properties of the search

\* C20: for every query and every k >= 1, also a k above the corpus size,
\* a search returns without an error of its own at most k and at most
\* corpus-size passages, each one a passage of the loaded corpus, none
\* standing for the index's "not found" mark.
C20_SearchWithinCorpus ==
    \A t \in Threads :
        (call[t].single /\ call[t].k >= 1) =>
            /\ result[t].kind # "index_error"
            /\ result[t].kind = "one" =>
                  LET ps == result[t].passages[1]
                  IN  /\ Len(ps) <= call[t].k
                      /\ Len(ps) <= Len(corpus)
                      /\ \A n \in DOMAIN ps : \E c \in DOMAIN corpus : ps[n] = corpus[c]
                      /\ ps = Expected(call[t].queries[1], call[t].k)

\* Similarity of passage p to query q: the inner product of their embeddings.
Similarity(p, q) == Score(Embed(p), Embed(q))

\* C21: for every query and every k up to the corpus size, the passages a
\* search returns are the index's ranked result with the -1 entries removed
\* and the order kept, and so stand in non-increasing order of similarity
\* to the query.
C21_RankedBySimilarity ==
    \A t \in Threads :
        (/\ call[t].single
         /\ result[t].kind = "one"
         /\ EffectiveK(call[t].k) <= Len(corpus)) =>
            LET q == call[t].queries[1]
                ps == result[t].passages[1]
            IN  /\ ps = Passages(corpus,
                                IndexSearch(index, Embed(q),
                                            EffectiveK(call[t].k)))
                /\ \A m, n \in DOMAIN ps :
                      m < n => Similarity(ps[m], q) >= Similarity(ps[n], q)

\* ------------------------------------------------ properties of the startup

\* len(corpus), as get_stats reports it (line 354).
CorpusSize == Len(corpus)

\* The process has got past the corpus load.
CorpusLoaded ==
    pc \in {"decide", "encode", "write_index", "hash_again", "open_hash",
            "write_hash", "read_index", "ready", "serving"}

\* C22: when every line of the corpus file is a parseable record with a
\* text, the load succeeds and yields one passage per line, in file order,
\* passage i being the first MAX_CHARS characters of the text of line i (the
\* whole text when it is no longer); the corpus size reported is the number
\* of lines.
C22_OnePassagePerLine ==
    LET lines == corpus_file.lines
    IN  (corpus_file.exists /\ \A i \in DOMAIN lines : lines[i].ok) =>
            /\ pc # "exited"
            /\ CorpusLoaded =>
                  /\ CorpusSize = Len(lines)
                  /\ DOMAIN corpus = DOMAIN lines
                  /\ \A i \in DOMAIN lines :
                        /\ Len(corpus[i]) =
                              IF Len(lines[i].text) <= MAX_CHARS
                              THEN Len(lines[i].text) ELSE MAX_CHARS
                        /\ \A j \in 1..Len(corpus[i]) :
                              corpus[i][j] = lines[i].text[j]

C22_Witness ==
    /\ pc = "serving"
    /\ corpus_file.lines = <<LineB, LineA>>
    /\ CorpusSize = 2
    /\ Len(corpus[1]) = MAX_CHARS
    /\ corpus[2] = LineA.text

\* The corpus file is missing, or a line of it does not parse or has no text.
BadCorpus ==
    \/ ~corpus_file.exists
    \/ \E i \in DOMAIN corpus_file.lines : ~corpus_file.lines[i].ok

\* C23: when the corpus file is missing, or a line of it fails to parse or
\* lacks a text, the startup ends the process with a non-zero status before
\* an index is built, loaded or persisted and before a query is served; no
\* part of the corpus is kept.
C23_BadCorpusIsFatal ==
    /\ [](BadCorpus =>
            /\ pc \in {"detect", "corpus_exists", "load_corpus", "exited"}
            /\ pc = "exited" => exitStatus # 0
            /\ corpus = <<>>
            /\ index = NoIndex
            /\ ~embedded)
    /\ [][BadCorpus => (index_file' = index_file /\ hash_file' = hash_file)]_vars
    /\ (BadCorpus ~> (pc = "exited" /\ exitStatus # 0))

C23_Witness ==
    /\ pc = "exited"
    /\ exitStatus = 1
    /\ corpus_file.exists
    /\ Len(corpus_file.lines) = 2
    /\ corpus_file.lines[1].ok
    /\ ~corpus_file.lines[2].ok
    /\ index_file.exists
    /\ hash_file.text = Text(compute_corpus_hash(corpus_file))

\* Something of a query of thread t is in the process or has left it.
Processing(t) ==
    \/ cpc[t] # "idle"
    \/ tpc[t] # "idle"
    \/ mpc[t] # "idle"
    \/ reply[t].kind # "none"

\* Discovery has returned a model, the corpus is loaded and the index is
\* built or loaded.
StartupDone ==
    /\ pc = "serving"
    /\ OLLAMA_MODEL # NoModel
    /\ loaded \in GoodContents
    /\ corpus = ParseCorpus(loaded)
    /\ Len(index.vecs) > 0

\* C24: no query is processed before the startup has finished: discovery
\* has run once and returned a model, then the corpus was loaded, then the
\* index was built or loaded, before the first rag_chat call runs; when one
\* of these steps fails fatally no query is ever processed.
C24_NoQueryBeforeReady ==
    /\ []((calls.n > 0 \/ \E t \in Threads : Processing(t)) => StartupDone)
    /\ [](pc \in {"exited", "crashed"} =>
            /\ exitStatus # 0
            /\ calls.n = 0
            /\ \A t \in Threads : ~Processing(t))
    /\ [](corpus # <<>> => OLLAMA_MODEL # NoModel)
    /\ [](index # NoIndex => corpus # <<>>)
    /\ [][/\ pc \notin DiscoveryPcs => pc' \notin DiscoveryPcs
          /\ OLLAMA_MODEL # NoModel => OLLAMA_MODEL' = OLLAMA_MODEL
          /\ corpus # <<>> => corpus' = corpus
          /\ index # NoIndex => index' = index]_vars

C24_Witness ==
    \E t \in Handlers :
        /\ reply[t].kind = "done"
        /\ polls = 2
        /\ sleeps = 1
        /\ embedded
        /\ calls.n = 1

\* ------------------------------------------ properties of the pipeline

\* The display text rag_chat owes for message m when retrieval and
\* generation end as `outcome` says: a function of these two alone.
DisplayText(m, outcome) ==
    IF ~validate_input(m).valid THEN validate_input(m).error_msg
    ELSE IF outcome = "raised" THEN user_message(NoExc)
    ELSE LET ctx == Expected(m.text, RETRIEVER_K)
         IN  FullResponse(Generate(ctx, m.text), ctx)

\* C25: query processing is stateless: the display text rag_chat returns is
\* determined by the message and by how retrieval and generation ended for
\* it, whatever the history argument and whatever queries came before.
C25_Stateless ==
    \A t \in Handlers :
        reply[t].kind # "none" =>
            reply[t].text =
                DisplayText(message[t],
                            IF raised[t] \in ExcTexts THEN "raised"
                            ELSE "returned")

\* The pipeline state of a call of rag_chat that stands at c and whose
\* last return was of kind k.
Stage(c, k) ==
    CASE c \in {"validate", "validated"} -> "Validating"
      [] c = "retrieving" -> "Retrieving"
      [] c = "generating" -> "Generating"
      [] c \in {"formatting", "recording_done"} -> "Formatting"
      [] c \in {"except", "recording_failed"} -> "Failed"
      [] c = "idle" /\ k = "none" -> "Idle"
      [] c = "idle" /\ k = "rejected" -> "Rejected"
      [] c = "idle" /\ k = "done" -> "Done"
      [] c = "idle" /\ k = "failed" -> "Failed"

\* The moves of the pipeline the claim allows; a new query starts where
\* the last one ended.
Moves ==
    {<<"Idle", "Validating">>, <<"Done", "Validating">>,
     <<"Rejected", "Validating">>, <<"Failed", "Validating">>,
     <<"Validating", "Retrieving">>, <<"Validating", "Rejected">>,
     <<"Retrieving", "Generating">>, <<"Retrieving", "Failed">>,
     <<"Generating", "Formatting">>, <<"Generating", "Failed">>,
     <<"Formatting", "Done">>, <<"Formatting", "Failed">>}

\* C26: a query moves only along Idle, Validating, Retrieving, Generating,
\* Formatting, Done, with Rejected reached only from Validating and Failed
\* only after Validating; the generation capability is called only after
\* the retrieval of that query has returned, with exactly the passages it
\* returned and the original question; formatting follows only a
\* generation that returned.
C26_PipelineOrder ==
    [][\A t \in Handlers :
          LET from == Stage(cpc[t], reply[t].kind)
              to == Stage(cpc'[t], reply'[t].kind)
          IN  /\ from # to => <<from, to>> \in Moves
              /\ from \notin {"Idle", "Done", "Rejected", "Failed"} =>
                    message'[t] = message[t]
              /\ (from = "Retrieving" /\ to = "Generating") =>
                    /\ tpc[t] = "idle"
                    /\ result[t].kind = "one"
                    /\ context'[t] = result[t].passages[1]
              /\ from = "Generating" => context'[t] \in {context[t], <<>>}
              /\ (from = "Generating" /\ to = "Formatting") =>
                    /\ answer'[t] = Generate(context[t], message[t].text)
                    /\ context'[t] = context[t]
              /\ (from = "Generating" /\ to = "Failed") =>
                    answer'[t] = NoAnswer]_vars

C26_Witness ==
    \E t \in Handlers :
        /\ cpc[t] = "formatting"
        /\ Len(context[t]) = 3
        /\ answer[t] = Generate(context[t], message[t].text)
        /\ calls.e > 0

\* A call of rag_chat by thread t is under way.
InCall(t) == cpc[t] # "idle"

\* C27 as stated: the latency timer is started on the move from Validating
\* to Retrieving, after validation has accepted the message: while a query
\* is in Validating no timer runs for it, and none is ever started for a
\* rejected one.
C27_TimerStartsAfterValidation ==
    \A t \in Handlers :
        Stage(cpc[t], reply[t].kind) = "Validating" => start_time[t] = NoTime

\* C27 as amended: the timer is started when rag_chat is entered, before
\* validation, for every query; it is not started again, a rejected query
\* leaves it unused, and the latency recorded for a validated query is the
\* time from the entry of rag_chat, validation included, to the recording.
C27_TimerStartsAtEntry ==
    /\ [](\A t \in Handlers :
            /\ InCall(t) <=> start_time[t] \in Clock
            /\ ~InCall(t) => start_time[t] = NoTime
            /\ Invalid(t) => t \notin Recording)
    /\ [][\A t \in Handlers :
            /\ (InCall(t) /\ InCall(t)') => start_time'[t] = start_time[t]
            /\ (mpc[t] = "idle" /\ mpc'[t] = "record_acquire") =>
                  /\ Stage(cpc[t], reply[t].kind) \in {"Formatting", "Failed"}
                  /\ margs'[t].latency + start_time[t] \in Clock]_vars

C27_Witness ==
    \E t \in Handlers :
        /\ cpc[t] = "validated"
        /\ Invalid(t)
        /\ start_time[t] = MaxClock
        /\ total_latency > 0

\* ------------------------------------------ properties of the fingerprint

\* The startup takes its decision in this step.
Deciding == pc = "decide" /\ pc' # "decide"

\* C28 as stated: reuse requires the whole content of the fingerprint file
\* to equal the digest of the corpus file character for character: for
\* every other content, also the digest with white space or a newline
\* before or after it, the decision is to rebuild.
C28_ReuseNeedsExactContent ==
    [][(Deciding /\ hash_file.text # Text(compute_corpus_hash(corpus_file)))
          => pc' = "encode"]_vars

\* C28 as amended: reuse requires the content of the fingerprint file,
\* with the white space before and after it removed, to equal the digest:
\* the digest surrounded by white space is reused, every content that
\* differs from the digest in another way is rebuilt for.
C28_ReuseNeedsStrippedContent ==
    [][Deciding =>
          /\ hash_file.text.hex # compute_corpus_hash(corpus_file) =>
                pc' = "encode"
          /\ (/\ index_file.exists
              /\ hash_file.exists
              /\ hash_file.text.hex = compute_corpus_hash(corpus_file)) =>
                pc' = "read_index"]_vars

C28_Witness ==
    /\ pc = "read_index"
    /\ hash_file.text.trail
    /\ ~hash_file.text.lead
    /\ hash_file.text.hex = compute_corpus_hash(corpus_file)

\* ------------------------------------------ properties of smart_truncate

\* text[:n] followed by the ellipsis.
CutAt(text, n) == SubSeq(text, 1, n) \o <<Dot, Dot, Dot>>

\* Positions (counted from 0) of the characters of `chars` among the first
\* max_len characters of text.
Boundaries(text, max_len, chars) ==
    {i \in 0..(max_len - 1) : i < Len(text) /\ text[i + 1] \in chars}

\* The largest element of a non-empty set of numbers.
Last(S) == CHOOSE i \in S : \A j \in S : j <= i

C30_ShapedLikeArgument ==
    \A t \in Threads :
        result[t].kind \in {"one", "list"} =>
            /\ Len(result[t].passages) = Len(call[t].queries)
            /\ \A i \in DOMAIN result[t].passages :
                  result[t].passages[i] = Expected(call[t].queries[i], call[t].k)
            /\ result[t].kind = IF call[t].single THEN "one" ELSE "list"

\* ------------------------------------------- properties of the serving state

\* C31: once serving has begun, no operation of the serving surface
\* (rag_chat with any outcome, the search it makes, get_stats) changes the
\* corpus or the index in memory, the model handle, or the persisted index
\* and fingerprint files.
C31_ServingChangesNothing ==
    [][pc = "serving" =>
          /\ corpus' = corpus
          /\ index' = index
          /\ OLLAMA_MODEL' = OLLAMA_MODEL
          /\ index_file' = index_file
          /\ hash_file' = hash_file]_vars

C31_Witness ==
    \E t \in Handlers :
        /\ pc = "serving"
        /\ embedded
        /\ reply[t].kind = "done"
        /\ stats[t].total_queries = 2
        /\ stats[t].errors = 1

\* C32: the metrics lock and the retriever lock are independent: no thread
\* holds both at once, a thread that records or reads metrics is never kept
\* waiting by a thread inside the embed and search section, and no set of
\* concurrent queries and get_stats calls deadlocks.
InSearchSection(t) ==
    tpc[t] \in {"encode", "encoding", "search", "searching", "release"}

InMetricsSection(t) ==
    mpc[t] \notin {"idle", "record_acquire", "stats_acquire"}

C32_LocksIndependent ==
    /\ \A t \in Threads : ~(lock = t /\ mlock = t)
    /\ \A t \in Threads : ~(InSearchSection(t) /\ mpc[t] # "idle")
    /\ \A t \in Threads :
          /\ mpc[t] = "record_acquire" /\ mlock = 0 => ENABLED RecordAcquire(t)
          /\ mpc[t] = "stats_acquire" /\ mlock = 0 => ENABLED StatsAcquire(t)
          /\ InMetricsSection(t) => ENABLED MetricsStep(t)
          /\ InSearchSection(t) => ENABLED SearchStep(t)
    /\ (\E t \in Threads : tpc[t] # "idle" \/ mpc[t] # "idle")
          => \E t \in Threads : ENABLED (SearchStep(t) \/ MetricsStep(t))

C32_Witness ==
    \E t, u \in Threads :
        /\ t # u
        /\ lock = t
        /\ tpc[t] = "searching"
        /\ mlock = u
        /\ mpc[u] = "error_store"
        /\ calls.n > 0

\* C33: over every sequence of startups, corpus-file edits at any moment and
\* stops at any step: whenever the index file and the fingerprint file both
\* exist and the fingerprint equals the digest of the current corpus file,
\* the persisted index was built from exactly the passages of the current
\* corpus file.
C33_MatchingFingerprintMeansCurrentIndex ==
    (/\ index_file.exists
     /\ hash_file.exists
     /\ hash_file.text = Text(compute_corpus_hash(corpus_file))) =>
        /\ corpus_file.lines \in GoodContents
        /\ ParseCorpus(index_file.idx.of) = ParseCorpus(corpus_file.lines)
        /\ index_file.idx.vecs =
              BuildIndex(ParseCorpus(corpus_file.lines), corpus_file.lines).vecs

\* C34: whenever serving begins, on the rebuild and on the reuse path alike,
\* the index in memory holds exactly one vector per passage of the corpus
\* in memory, vector i for passage i, so every position a search finds is a
\* position of the corpus.
C34_IndexAlignedWithCorpus ==
    pc = "serving" =>
        /\ Len(index.vecs) = Len(corpus)
        /\ \A i \in DOMAIN corpus : index.vecs[i] = Embed(corpus[i])
        /\ \A q \in {Query1, Query2}, k \in 1..RETRIEVER_K :
              InCorpus(IndexSearch(index, Embed(q), k))

C36_ErrorsWithinQueries ==
    /\ 0 <= error_count
    /\ error_count <= query_count
    /\ Snapshot.success_rate \in 0..10000
    /\ \A t \in Threads :
          /\ 0 <= stats[t].errors
          /\ stats[t].errors <= stats[t].total_queries
          /\ stats[t].success_rate \in 0..10000

C36_Witness ==
    \E t, u \in Threads :
        /\ t # u
        /\ stats[t].total_queries = 2
        /\ stats[t].errors = 1
        /\ stats[t].success_rate = 5000
        /\ mpc[u] = "error_load"
        /\ query_count = 3
        /\ error_count = 1

\* ------------------------------------------ properties of the corpus tools

\* The sentences of the chunks 1..k, in the order the chunks give them.
RECURSIVE Emitted(_, _)
Emitted(chunks, k) ==
    IF k = 0 THEN <<>> ELSE Emitted(chunks, k - 1) \o chunks[k]

\* The sentences of chunk k after its first p.
After(chunk, p) == SubSeq(chunk, p + 1, Len(chunk))

\* The overlap the claim gives chunk k > 1 with the chunk before it.
Overlap(chunks, k) ==
    IF ct_overlap <= Len(chunks[k - 1]) THEN ct_overlap
    ELSE Len(chunks[k - 1])

\* The sentences that chunks 1..k bring for the first time, in order.
RECURSIVE Fresh(_, _)
Fresh(chunks, k) ==
    IF k = 0 THEN <<>>
    ELSE IF k = 1 THEN chunks[1]
    ELSE Fresh(chunks, k - 1) \o After(chunks[k], Overlap(chunks, k))

\* C37: semantic_chunk_text keeps every sentence of the input, in order, and
\* each chunk after the first starts with exactly the last
\* min(overlap_sentences, size of the previous chunk) sentences of the
\* previous chunk, followed only by sentences not yet emitted, for every
\* overlap_sentences >= 0.
C37_ChunksOverlapByArgument ==
    ct_chunks # NoChunks =>
        /\ Fresh(ct_chunks, Len(ct_chunks)) =
              [i \in 1..Len(ct_sentences) |-> i]
        /\ \A k \in 2..Len(ct_chunks) :
              LET p == Overlap(ct_chunks, k)
              IN  /\ Len(ct_chunks[k]) > p
                  /\ SubSeq(ct_chunks[k], 1, p) =
                        After(ct_chunks[k - 1], Len(ct_chunks[k - 1]) - p)
                  /\ \A j \in (p + 1)..Len(ct_chunks[k]) :
                        \A e \in DOMAIN Emitted(ct_chunks, k - 1) :
                            Emitted(ct_chunks, k - 1)[e] # ct_chunks[k][j]

\* C38: round trip between the corpus writer and the corpus loader: for
\* every list of entries a tool writes as a JSONL corpus, the load of the
\* service succeeds and yields exactly one passage per written entry, in
\* the same order, each equal to the entry's text truncated to MAX_CHARS.
C38_WriterLoaderRoundTrip ==
    rt_corpus # NotLoaded =>
        /\ rt_corpus.ok
        /\ rt_corpus.passages =
              [i \in DOMAIN rt_entries |-> Truncate(rt_entries[i])]

=============================================================================
